---------------------------- MODULE Spec2Model ----------------------------
(***************************************************************************)
(* voltlog-io: a model of the level registry, the ring buffer transport,   *)
(* the batching wrapper and the logger's ingestion path (level pre-check,  *)
(* middleware chain, transport fan-out).                                   *)
(*                                                                         *)
(* Three specifications share the module, one per component:               *)
(*   SpecRing   ringBufferTransport  (write / clear / getEntries)          *)
(*   SpecBatch  batchTransport       (transform / timer / flush / close)   *)
(*   SpecLog    LoggerImpl           (log / setLevel / add / remove)       *)
(* A specification leaves the other components' variables untouched.       *)
(***************************************************************************)
EXTENDS Integers, Sequences, FiniteSets, TLC

VARIABLES
    \* ---- ringBufferTransport (src/src/transports/ring-buffer.ts) ----
    maxSize,      \* options.maxSize, fixed at construction
    buffer,       \* const buffer: LogEntry[]
    head,         \* let head
    count,        \* let count
    written,      \* history: the entries written since the last clear()
    nWrites,      \* history: number of write() calls so far (entry ids)
    ringOut,      \* the last getEntries() call: its query and what it returned
    \* ---- batchTransport (src/unnamed/part_011) ----
    batchSize,    \* options.batchSize, fixed at construction
    innerHooks,   \* which of flush / close the inner transformer has
    batchBuffer,  \* let buffer: LogEntry[]  (the pending batch)
    flushTimer,   \* let flushTimer: Undefined, or Some(time it fires at)
    now,          \* the clock, in units of one millisecond
    firstAt,      \* history: when the oldest entry of the pending batch was written
    innerLog,     \* history: every inner.transform call so far, in order
    hookLog,      \* history: the calls on the inner transformer since the last
                  \* flush() / close() call began, in order
    escaped,      \* an error left transform() or the timer callback
    unhandled,    \* a rejected promise was left without a handler
    pc,           \* where the one flush() / close() call in progress is suspended
    started,      \* nBatchWrites when that flush() / close() was called
    lastOp,       \* the operation that just ran on the wrapper, and what it did
    lastDone,     \* the last flush() / close() that settled, and the state then
    nBatchWrites, \* history: number of transform() calls so far (entry ids)
    \* ---- LoggerImpl (src/src/core/types.ts) and the pipeline ----
    loggerLevel,     \* this._level
    transports,      \* this._transports
    middlewareList,  \* this._middlewareList
    lastLog,         \* the log call that just ran, and what it did
    \* ---- LoggerImpl.flush / close ----
    lcPc,            \* where the flush() / close() call in progress is suspended
    lcCalls,         \* the hooks called by it so far, in order, with their results
    lcThrew,         \* a hook threw synchronously while the hooks were called
    lcDone,          \* the flush() / close() that just settled, and how
    \* ---- serializeError (src/src/core/types.ts) ----
    errIn,           \* the Error that is logged, with its cause chain
    errOut,          \* Undefined, or Some(the LogError it was serialized to)
    \* ---- deduplicationMiddleware (src/src/middleware/http.ts) ----
    dedupBuffer,     \* const buffer: Map<string, DedupState>, by key
    dedupNow,        \* the clock, in units of one millisecond
    dedupTrace,      \* history: entries given to the middleware and entries
                     \* it passed to next, in order
    \* ---- asyncContextMiddleware (src/src/middleware/async-context.ts) ----
    ctxStack,        \* per asynchronous flow: the stores of the scopes it is
                     \* inside, innermost last (storage.getStore() is the last)
    sharedMeta,      \* a meta object the caller keeps and passes to log calls
    lastCtx,         \* the operation that just ran, and what it did
    \* ---- LoggerImpl.child, ChildLoggerImpl (src/src/core/types.ts) ----
    children,        \* the ChildLoggerImpl objects created so far
    baseContext,     \* this._context of the root
    levelSet,        \* history: the level name last given to setLevel
    lastFam,         \* the operation that just ran on a logger, and what it did
    \* ---- sendBatch (src/src/transformers/webhook.ts), pushWithRetry
    \* ---- (src/src/transports/loki.ts) ----
    sink,            \* which of the two sinks this is
    retryEnabled,    \* options.retry
    maxRetries,      \* options.maxRetries
    attempt,         \* the attempt counter of the batch being sent
    sendPc,          \* where the send of the batch stands
    fetched,         \* history: what each fetch() call of the batch came to
    delays,          \* history: the backoff delays waited, in ms
    consoleErrors,   \* history: the console.error calls for the batch
    settled,         \* how the promise of the send settled, once it did
    \* ---- samplingMiddleware (src/src/middleware/sampling.ts) ----
    buckets,         \* the bucket of each key, if it has one
    sampleNow,       \* the present time, the timestamp of an entry logged now
    sampleTrace,     \* history: the entries given to the middleware, and
                     \* whether each was passed to next
    maxPerWindow,    \* options.maxPerWindow
    sampleRate,      \* options.sampleRate, in hundredths
    \* ---- alertMiddleware (src/unnamed/part_009) ----
    rules,           \* the rules the middleware was made with
    states,          \* the state of each rule, by rule name
    alertNow,        \* the present time, the timestamp of an entry logged now
    alertTrace,      \* history: the entries given to the middleware, the
                     \* alerts fired on each and whether it was passed to next
    \* ---- lokiTransport: buffer and flush timer (src/src/transports/loki.ts) ----
    lokiBatchSize,   \* options.batchSize
    lokiBuffer,      \* buffer: the entries written and not yet pushed
    lokiTimer,       \* timer: "null", the handle of a pending timeout, or
                     \* the handle of a timeout that was cancelled
    lokiWrites,      \* how many entries were written
    lokiPushed       \* history: the batches given to pushWithRetry

ringVars == <<maxSize, buffer, head, count, written, nWrites, ringOut>>

batchVars ==
    <<batchSize, innerHooks, batchBuffer, flushTimer, now, firstAt, innerLog,
      hookLog, escaped, unhandled, pc, started, lastOp, lastDone, nBatchWrites>>

logVars == <<loggerLevel, transports, middlewareList, lastLog>>

lcVars == <<lcPc, lcCalls, lcThrew, lcDone>>

errVars == <<errIn, errOut>>

dedupVars == <<dedupBuffer, dedupNow, dedupTrace>>

ctxVars == <<ctxStack, sharedMeta, lastCtx>>

famVars == <<children, baseContext, levelSet, lastFam>>

retryVars == <<sink, retryEnabled, maxRetries, attempt, sendPc, fetched, delays, consoleErrors, settled>>

samplingVars == <<buckets, sampleNow, sampleTrace, maxPerWindow, sampleRate>>

alertVars == <<rules, states, alertNow, alertTrace>>

lokiVars == <<lokiBatchSize, lokiBuffer, lokiTimer, lokiWrites, lokiPushed>>

vars ==
    <<ringVars, batchVars, logVars, lcVars, errVars, dedupVars, ctxVars, famVars, retryVars, samplingVars, alertVars, lokiVars>>

\* what an operation of one component leaves alone
notRing == <<batchVars, logVars, lcVars, errVars, dedupVars, ctxVars, famVars, retryVars, samplingVars, alertVars, lokiVars>>
notBatch == <<ringVars, logVars, lcVars, errVars, dedupVars, ctxVars, famVars, retryVars, samplingVars, alertVars, lokiVars>>
notLog == <<ringVars, batchVars, lcVars, errVars, dedupVars, ctxVars, famVars, retryVars, samplingVars, alertVars, lokiVars>>
notLc == <<ringVars, batchVars, logVars, errVars, dedupVars, ctxVars, famVars, retryVars, samplingVars, alertVars, lokiVars>>
notErr == <<ringVars, batchVars, logVars, lcVars, dedupVars, ctxVars, famVars, retryVars, samplingVars, alertVars, lokiVars>>
notDedup == <<ringVars, batchVars, logVars, lcVars, errVars, ctxVars, famVars, retryVars, samplingVars, alertVars, lokiVars>>
notCtx == <<ringVars, batchVars, logVars, lcVars, errVars, dedupVars, famVars, retryVars, samplingVars, alertVars, lokiVars>>
notFam == <<ringVars, batchVars, lcVars, errVars, dedupVars, ctxVars, retryVars, samplingVars, alertVars, lokiVars>>
notRetry == <<ringVars, batchVars, logVars, lcVars, errVars, dedupVars, ctxVars, famVars, samplingVars, alertVars, lokiVars>>
notSampling == <<ringVars, batchVars, logVars, lcVars, errVars, dedupVars, ctxVars, famVars, retryVars, alertVars, lokiVars>>
notAlert == <<ringVars, batchVars, logVars, lcVars, errVars, dedupVars, ctxVars, famVars, retryVars, samplingVars, lokiVars>>
notLoki == <<ringVars, batchVars, logVars, lcVars, errVars, dedupVars, ctxVars, famVars, retryVars, samplingVars, alertVars>>

-----------------------------------------------------------------------------
(* Bounds of the model *)

MaxSize == 3          \* ring capacities 1..MaxSize
MaxWrites == 4        \* ring write() calls per behaviour
MaxBatchSize == 3     \* batchSize ranges over 1..MaxBatchSize
MaxBatchWrites == 3   \* batch transform() calls per behaviour
MaxTime == 3          \* the clock stops at MaxTime
MaxTransports == 2    \* transports attached to the logger at a time
MaxMiddleware == 2    \* middleware registered on the logger at a time
MaxChain == 2         \* middleware a logger is constructed with
MaxHooked == 2        \* transports of a logger that is flushed and closed
MaxCauses == 7        \* errors in a cause chain below the logged error
MaxDedupEntries == 3  \* entries given to the deduplication middleware
MaxDedupTime == 4     \* its clock stops at MaxDedupTime
MaxDepth == 2         \* runInContext scopes nested in one another
MaxChildren == 2      \* child loggers derived from the root
MaxMaxRetries == 2    \* options.maxRetries of a sink
MaxPerWindow == 2     \* options.maxPerWindow of the sampling middleware
MaxSampled == 4       \* entries given to the sampling middleware
MaxSampleTime == 3    \* the clock of the sampling middleware
MaxAlertEntries == 4  \* entries given to the alert middleware
MaxAlertTime == 3     \* the clock of the alert middleware
MaxRegistered == 4    \* middleware registered on a logger that changes its own list
MaxLokiBatchSize == 3 \* options.batchSize of the Loki transport
MaxLokiWrites == 5    \* entries written to the Loki transport
MaxOuterWrites == 3   \* transform() calls from outside on a wrapper whose inner
                      \* transformer writes to the wrapper

-----------------------------------------------------------------------------
(* Level registry *)

\* LogLevel.SILENT is Infinity in the source; the model uses a number above
\* every finite level an entry can carry.
Infinity == 1000

LogLevel ==
    [TRACE |-> 10, DEBUG |-> 20, INFO |-> 30, WARN |-> 40,
     ERROR |-> 50, FATAL |-> 60, SILENT |-> Infinity]

LogLevelNames == {"TRACE", "DEBUG", "INFO", "WARN", "ERROR", "FATAL", "SILENT"}

\* String.prototype.toLowerCase on the names the model uses.
toLowerCase(s) ==
    CASE s = "TRACE"  -> "trace"
      [] s = "DEBUG"  -> "debug"
      [] s = "INFO"   -> "info"
      [] s = "WARN"   -> "warn"
      [] s = "ERROR"  -> "error"
      [] s = "FATAL"  -> "fatal"
      [] s = "SILENT" -> "silent"
      [] s = "Warn"   -> "warn"
      [] OTHER        -> s

\* String.prototype.toUpperCase on the names the model uses.
toUpperCase(s) ==
    CASE s = "debug"  -> "DEBUG"
      [] s = "silent" -> "SILENT"
      [] s = "Trace"  -> "TRACE"
      [] s = "bogus"  -> "BOGUS"
      [] OTHER        -> s

\* Object.fromEntries(Object.entries(LogLevel).map(([k, v]) => [k.toLowerCase(), v]))
LogLevelNameMap ==
    [k \in {toLowerCase(n) : n \in LogLevelNames} |->
        LogLevel[CHOOSE n \in LogLevelNames : toLowerCase(n) = k]]

\* Object.fromEntries(entries.filter(([, v]) => Number.isFinite(v)).map(([k, v]) => [v, k]))
LogLevelValueMap ==
    [v \in {LogLevel[n] : n \in LogLevelNames \ {"SILENT"}} |->
        CHOOSE n \in LogLevelNames : LogLevel[n] = v]

resolveLevel(level) ==
    IF toLowerCase(level) \in DOMAIN LogLevelNameMap
    THEN LogLevelNameMap[toLowerCase(level)]
    ELSE LogLevel.INFO

\* (mutation of shouldLog: the comparison dropped)
shouldLogLoose(entryLevel, filterLevel) == TRUE

shouldLog(entryLevel, filterLevel) == entryLevel >= filterLevel

-----------------------------------------------------------------------------
(* JavaScript helpers *)

\* An optional value is <<>> (undefined) or <<v>>.
Undefined == <<>>
Some(v) == <<v>>

\* Truthiness of an optional number / optional string.
TruthyNum(o) == o # Undefined /\ o[1] # 0
TruthyStr(o) == o # Undefined /\ o[1] # ""

Min(a, b) == IF a <= b THEN a ELSE b
Max(a, b) == IF a >= b THEN a ELSE b

\* Array.prototype.slice(start, end), 0-based, negative indices from the end.
SliceIndex(len, i) == IF i < 0 THEN Max(len + i, 0) ELSE Min(i, len)

slice(arr, start, end) ==
    LET s == SliceIndex(Len(arr), start)
        e == SliceIndex(Len(arr), end)
    IN  IF e <= s THEN <<>> ELSE SubSeq(arr, s + 1, e)

sliceFrom(arr, start) == slice(arr, start, Len(arr))

-----------------------------------------------------------------------------
(* ringBufferTransport *)

RingLevels == {LogLevel.DEBUG, LogLevel.WARN}
RingTimestamps == {1, 2}

RingEntries(id) ==
    {[id |-> id, level |-> l, timestamp |-> t] : l \in RingLevels, t \in RingTimestamps}

NoQuery == [level |-> Undefined, since |-> Undefined, limit |-> Undefined]

RingQueries ==
    [level : {Undefined, Some("Warn")},
     since : {Undefined, Some(0), Some(2)},
     limit : {Undefined, Some(0), Some(1), Some(2)}]

NoResult == [called |-> FALSE, query |-> NoQuery, entries |-> <<>>]

RingInit ==
    /\ maxSize \in 1..MaxSize
    /\ buffer = <<>>
    /\ head = 0
    /\ count = 0
    /\ written = <<>>
    /\ nWrites = 0
    /\ ringOut = NoResult

\* buffer[head] = entry, on the 0-based array
setAt(arr, i, v) == [arr EXCEPT ![i + 1] = v]

\* (mutation of write: the count is not saturated at maxSize)
writeUnsaturated(entry) ==
    /\ buffer' = IF count < maxSize THEN Append(buffer, entry)
                 ELSE setAt(buffer, head, entry)
    /\ count' = count + 1
    /\ head' = (head + 1) % maxSize

write(entry) ==
    /\ IF count < maxSize
       THEN /\ buffer' = Append(buffer, entry)
            /\ count' = count + 1
       ELSE /\ buffer' = setAt(buffer, head, entry)
            /\ count' = count
    /\ head' = (head + 1) % maxSize

\* (mutation of ordered: the wrapped layout is returned in storage order)
orderedUnwrapped == buffer

\* Reconstruct ordered array (oldest -> newest)
ordered ==
    IF count < maxSize
    THEN sliceFrom(buffer, 0)
    ELSE sliceFrom(buffer, head) \o slice(buffer, 0, head)

applyLimit(entries, query) ==
    IF TruthyNum(query.limit) THEN sliceFrom(entries, 0 - query.limit[1]) ELSE entries

applySince(entries, query) ==
    IF TruthyNum(query.since)
    THEN LET keep(e) == e.timestamp >= query.since[1] IN SelectSeq(entries, keep)
    ELSE entries

applyLevel(entries, query) ==
    IF TruthyStr(query.level)
    THEN LET minLevel == resolveLevel(query.level[1])
             keep(e) == e.level >= minLevel
         IN  SelectSeq(entries, keep)
    ELSE entries

\* (mutation of getEntries: the limit is applied before the filters)
getEntriesLimitFirst(query) ==
    applySince(applyLevel(applyLimit(ordered, query), query), query)

getEntries(query) == applyLimit(applySince(applyLevel(ordered, query), query), query)

RingWrite ==
    /\ nWrites < MaxWrites
    /\ \E e \in RingEntries(nWrites + 1) :
        /\ write(e)
        /\ written' = Append(written, e)
    /\ nWrites' = nWrites + 1
    /\ ringOut' = NoResult
    /\ UNCHANGED <<maxSize, notRing>>

RingClear ==
    /\ buffer' = <<>>
    /\ head' = 0
    /\ count' = 0
    /\ written' = <<>>
    /\ ringOut' = NoResult
    /\ UNCHANGED <<maxSize, nWrites, notRing>>

RingGetEntries ==
    /\ \E q \in RingQueries :
        ringOut' = [called |-> TRUE, query |-> q, entries |-> getEntries(q)]
    /\ UNCHANGED <<maxSize, buffer, head, count, written, nWrites, notRing>>

\* get size()
size == count

RingNext == RingWrite \/ RingClear \/ RingGetEntries


-----------------------------------------------------------------------------
(* batchTransport *)

\* options.flushIntervalMs, in clock units
flushIntervalMs == 2

\* What the inner transformer does with an entry is decided by the entry:
\* it returns normally, throws, or returns a promise that rejects.
InnerKinds == {"ok", "throw", "reject"}

BatchEntries(id) == {[id |-> id, kind |-> k] : k \in InnerKinds}

Call(op, id) == [op |-> op, id |-> id]

NoOp == [op |-> "none", before |-> <<>>, handed |-> <<>>, waited |-> 0]
NoneDone ==
    [op |-> "none", ok |-> FALSE, buffer |-> <<>>, timer |-> FALSE,
     started |-> 0, writes |-> 0]

BatchInit ==
    /\ batchSize \in 1..MaxBatchSize
    /\ innerHooks \in {{}, {"flush", "close"}}
    /\ batchBuffer = <<>>
    /\ flushTimer = Undefined
    /\ now = 0
    /\ firstAt = 0
    /\ innerLog = <<>>
    /\ hookLog = <<>>
    /\ escaped = FALSE
    /\ unhandled = FALSE
    /\ pc = "idle"
    /\ started = 0
    /\ lastOp = NoOp
    /\ lastDone = NoneDone
    /\ nBatchWrites = 0

\* (mutation of deliverOne: no try/catch and no .catch(() => {}))
deliverOneUnguarded(entry) ==
    [escaped |-> entry.kind = "throw", unhandled |-> entry.kind = "reject"]

\* try { result = inner.transform(entry); result.catch(() => {}) } catch {}
\* for one entry: whether an error leaves the loop body, and whether a
\* rejection stays without a handler.
deliverOne(entry) == [escaped |-> FALSE, unhandled |-> FALSE]

\* for (const entry of batch) { ... }: the entries handed to the inner
\* transformer, up to the entry whose error leaves the loop.
RECURSIVE deliver(_)
deliver(batch) ==
    IF batch = <<>>
    THEN [handed |-> <<>>, escaped |-> FALSE, unhandled |-> FALSE]
    ELSE LET one == deliverOne(Head(batch))
             rest == IF one.escaped
                     THEN [handed |-> <<>>, escaped |-> TRUE, unhandled |-> FALSE]
                     ELSE deliver(Tail(batch))
         IN  [handed |-> <<Head(batch)>> \o rest.handed,
              escaped |-> rest.escaped,
              unhandled |-> one.unhandled \/ rest.unhandled]

RECURSIVE Calls(_)
Calls(entries) ==
    IF entries = <<>> THEN <<>>
    ELSE <<Call("transform", Head(entries).id)>> \o Calls(Tail(entries))

\* (mutation of doFlush: the buffer is handed over but not swapped)
doFlushKeeping(buf, fresh, more) ==
    LET d == deliver(buf)
    IN  /\ batchBuffer' = buf
        /\ innerLog' = innerLog \o Calls(d.handed)
        /\ hookLog' = (IF fresh THEN <<>> ELSE hookLog) \o Calls(d.handed) \o more
        /\ escaped' = (escaped \/ d.escaped)
        /\ unhandled' = (unhandled \/ d.unhandled)

\* doFlush() on the buffer `buf`: swap the buffer for an empty one and hand
\* the batch over. `fresh` says a flush() / close() call starts here, `more`
\* is what that call calls on the inner transformer right afterwards.
doFlush(buf, fresh, more) ==
    LET d == deliver(buf)
    IN  /\ batchBuffer' = <<>>
        /\ innerLog' = innerLog \o Calls(d.handed)
        /\ hookLog' = (IF fresh THEN <<>> ELSE hookLog) \o Calls(d.handed) \o more
        /\ escaped' = (escaped \/ d.escaped)
        /\ unhandled' = (unhandled \/ d.unhandled)

\* scheduleFlush(): if (flushTimer) return; flushTimer = setTimeout(..., flushIntervalMs)
scheduleFlush ==
    flushTimer' = IF flushTimer # Undefined THEN flushTimer
                  ELSE Some(now + flushIntervalMs)

\* (mutation of batchFull: the flush triggers one entry late)
batchFullLate(len) == len > batchSize

\* buffer.length >= batchSize
batchFull(len) == len >= batchSize

\* transform(entry)
BatchTransform ==
    /\ nBatchWrites < MaxBatchWrites
    /\ \E entry \in BatchEntries(nBatchWrites + 1) :
        LET pushed == Append(batchBuffer, entry)
        IN  IF batchFull(Len(pushed))
            THEN /\ doFlush(pushed, FALSE, <<>>)
                 /\ UNCHANGED flushTimer
                 /\ lastOp' = [op |-> "transform", before |-> batchBuffer,
                               handed |-> deliver(pushed).handed, waited |-> 0]
            ELSE /\ batchBuffer' = pushed
                 /\ scheduleFlush
                 /\ UNCHANGED <<innerLog, hookLog, escaped, unhandled>>
                 /\ lastOp' = [op |-> "transform", before |-> batchBuffer,
                               handed |-> <<>>, waited |-> 0]
    /\ firstAt' = IF batchBuffer = <<>> THEN now ELSE firstAt
    /\ nBatchWrites' = nBatchWrites + 1
    /\ UNCHANGED <<notBatch, batchSize, innerHooks, now, pc, started, lastDone>>

\* the setTimeout callback: flushTimer = null; doFlush()
BatchTimer ==
    /\ flushTimer # Undefined
    /\ now >= flushTimer[1]
    /\ flushTimer' = Undefined
    /\ doFlush(batchBuffer, FALSE, <<>>)
    /\ lastOp' = [op |-> "timer", before |-> batchBuffer,
                  handed |-> deliver(batchBuffer).handed,
                  waited |-> IF batchBuffer = <<>> THEN 0 ELSE now - firstAt]
    /\ UNCHANGED <<notBatch, batchSize, innerHooks, now, firstAt, pc, started,
                   lastDone, nBatchWrites>>

\* One millisecond passes. A timer fires when its time has come: the clock
\* does not move past a pending timer.
BatchTick ==
    /\ now < MaxTime
    /\ flushTimer # Undefined => now < flushTimer[1]
    /\ now' = now + 1
    /\ lastOp' = NoOp
    /\ UNCHANGED <<notBatch, batchSize, innerHooks, batchBuffer, flushTimer, firstAt,
                   innerLog, hookLog, escaped, unhandled, pc, started, lastDone,
                   nBatchWrites>>

HookCall(h) == IF h \in innerHooks THEN <<Call(h, 0)>> ELSE <<>>

\* (mutation of flushSync: the buffer is not handed over before inner.flush)
flushSyncSkipping ==
    /\ flushTimer' = Undefined
    /\ hookLog' = HookCall("flush")
    /\ UNCHANGED <<batchBuffer, innerLog, escaped, unhandled>>

\* flush() up to its await: clearTimeout, doFlush(), the call of inner.flush?.()
flushSync ==
    /\ flushTimer' = Undefined
    /\ doFlush(batchBuffer, TRUE, HookCall("flush"))

\* flush() is called
BatchFlush ==
    /\ pc = "idle"
    /\ flushSync
    /\ pc' = "flush:await inner.flush"
    /\ started' = nBatchWrites
    /\ lastOp' = [op |-> "flush", before |-> batchBuffer,
                  handed |-> deliver(batchBuffer).handed, waited |-> 0]
    /\ UNCHANGED <<notBatch, batchSize, innerHooks, now, firstAt, lastDone, nBatchWrites>>

\* close() is called: await this.flush?.() runs flush() up to its await
BatchClose ==
    /\ pc = "idle"
    /\ flushSync
    /\ pc' = "close:await flush"
    /\ started' = nBatchWrites
    /\ lastOp' = [op |-> "close", before |-> batchBuffer,
                  handed |-> deliver(batchBuffer).handed, waited |-> 0]
    /\ UNCHANGED <<notBatch, batchSize, innerHooks, now, firstAt, lastDone, nBatchWrites>>

Settled(op, ok) ==
    [op |-> op, ok |-> ok, buffer |-> batchBuffer,
     timer |-> flushTimer # Undefined, started |-> started,
     writes |-> nBatchWrites]

\* the promise a hook returned settles; a missing hook cannot reject
Outcomes(h) == IF h \in innerHooks THEN {TRUE, FALSE} ELSE {TRUE}

\* flush() resumes after `await inner.flush?.()` and settles
BatchFlushSettle ==
    /\ pc = "flush:await inner.flush"
    /\ \E ok \in Outcomes("flush") :
        /\ lastDone' = Settled("flush", ok)
        /\ lastOp' = [op |-> "flush settled", before |-> batchBuffer,
                      handed |-> <<>>, waited |-> 0]
    /\ pc' = "idle"
    /\ UNCHANGED <<notBatch, batchSize, innerHooks, batchBuffer, flushTimer, now, firstAt,
                   innerLog, hookLog, escaped, unhandled, started, nBatchWrites>>

\* close() resumes after `await this.flush?.()`: a rejection rejects close(),
\* otherwise inner.close?.() is called and awaited
BatchCloseAfterFlush ==
    /\ pc = "close:await flush"
    /\ \E ok \in Outcomes("flush") :
        IF ok
        THEN /\ hookLog' = hookLog \o <<Call("flush settled", 0)>> \o HookCall("close")
             /\ pc' = "close:await inner.close"
             /\ UNCHANGED lastDone
        ELSE /\ pc' = "idle"
             /\ lastDone' = Settled("close", FALSE)
             /\ UNCHANGED hookLog
    /\ lastOp' = [op |-> "close resumed", before |-> batchBuffer,
                  handed |-> <<>>, waited |-> 0]
    /\ UNCHANGED <<notBatch, batchSize, innerHooks, batchBuffer, flushTimer, now, firstAt,
                   innerLog, escaped, unhandled, started, nBatchWrites>>

\* close() resumes after `await inner.close?.()` and settles
BatchCloseSettle ==
    /\ pc = "close:await inner.close"
    /\ \E ok \in Outcomes("close") :
        /\ lastDone' = Settled("close", ok)
        /\ lastOp' = [op |-> "close settled", before |-> batchBuffer,
                      handed |-> <<>>, waited |-> 0]
    /\ pc' = "idle"
    /\ UNCHANGED <<notBatch, batchSize, innerHooks, batchBuffer, flushTimer, now, firstAt,
                   innerLog, hookLog, escaped, unhandled, started, nBatchWrites>>

BatchNext ==
    \/ BatchTransform
    \/ BatchTimer
    \/ BatchTick
    \/ BatchFlush
    \/ BatchClose
    \/ BatchFlushSettle
    \/ BatchCloseAfterFlush
    \/ BatchCloseSettle

-----------------------------------------------------------------------------
(* LoggerImpl, composeMiddleware, fanOutToTransformers *)

\* The transports that get attached. `kind` is what transform(entry) does:
\* it returns normally, throws, or returns a promise that rejects.
TransportPool ==
    { [name |-> "plain",  level |-> Undefined,     kind |-> "ok"],
      [name |-> "warn",   level |-> Some("Warn"),  kind |-> "throw"],
      [name |-> "debug",  level |-> Some("DEBUG"), kind |-> "reject"] }

\* The middleware that get registered, by what they do with (entry, next):
\*   pass     next(entry)
\*   drop     returns without calling next
\*   relevel  entry.level = 40; entry.levelName = "WARN"; next(entry)
\*   quiet    logger.setLevel("ERROR"); next(entry)
\* A transport object is attached, and a middleware function registered, at
\* most once at a time.
MiddlewareKinds == {"pass", "drop", "relevel", "quiet"}

\* the six level methods: trace, debug, info, warn, error, fatal
Methods == LogLevelNames \ {"SILENT"}

NoLog ==
    [called |-> FALSE, via |-> "root", level |-> 0, threshold |-> 0,
     idCalled |-> FALSE, tsCalled |-> FALSE, seen |-> <<>>, finals |-> <<>>,
     out |-> Undefined, received |-> <<>>, threw |-> "no", unhandled |-> FALSE,
     given |-> Undefined, registered |-> <<>>]

\* new LoggerImpl(): level INFO, no transports, no middleware
LogInit ==
    /\ loggerLevel = resolveLevel("INFO")
    /\ transports = <<>>
    /\ middlewareList = <<>>
    /\ lastLog = NoLog

\* (mutation of effectiveLevel: the transport's own level is ignored)
effectiveLevelShared(t, lvl) == lvl

\* t.level ? resolveLevel(t.level) : loggerLevel
effectiveLevel(t, lvl) ==
    IF TruthyStr(t.level) THEN resolveLevel(t.level[1]) ELSE lvl

\* (mutation of transformGuarded: no try/catch and no catch handler)
transformUnguarded(t) ==
    [escaped |-> t.kind = "throw", unhandled |-> t.kind = "reject"]

\* try { result = t.transform(entry); result.catch(() => {}) } catch {}
\* for one transport: whether an error leaves the loop body, and whether a
\* rejection stays without a handler.
transformGuarded(t) == [escaped |-> FALSE, unhandled |-> FALSE]

\* fanOutToTransformers(entry, transformers, loggerLevel), from position i on:
\* the positions of the transports that were handed the entry, whether an
\* error left the loop, whether a rejection stayed unhandled.
RECURSIVE fanOutToTransformers(_, _, _, _)
fanOutToTransformers(entry, transformers, lvl, i) ==
    IF i > Len(transformers)
    THEN [received |-> <<>>, escaped |-> FALSE, unhandled |-> FALSE]
    ELSE LET t == transformers[i]
             tLevel == effectiveLevel(t, lvl)
         IN  IF ~shouldLog(entry.level, tLevel)
             THEN fanOutToTransformers(entry, transformers, lvl, i + 1)
             ELSE LET one == transformGuarded(t)
                      rest == IF one.escaped
                              THEN [received |-> <<>>, escaped |-> TRUE,
                                    unhandled |-> FALSE]
                              ELSE fanOutToTransformers(entry, transformers, lvl, i + 1)
                  IN  [received |-> <<i>> \o rest.received,
                       escaped |-> rest.escaped,
                       unhandled |-> one.unhandled \/ rest.unhandled]

\* The middleware a logger can be constructed with: the above and
\*   throw       throws without calling next
\*   throwAfter  next(entry); then throws
\*   twice       next(entry); next(entry)
ChainKinds == MiddlewareKinds \cup {"throw", "throwAfter", "twice"}

\* levelOverrideMiddleware({cleanup}) with the default key: the meta of a log
\* call has the key or not; the context and meta.headers never have it
OverrideKey == "x-log-level"

NoMeta == [k \in {OverrideKey} |-> Undefined]

\* (mutation of levelOverride: cleanup removes the key whatever its value)
levelOverrideCleaning(cleanup, entry) ==
    LET levelName == entry.meta[OverrideKey]
    IN  IF TruthyStr(levelName) /\ toUpperCase(levelName[1]) \in DOMAIN LogLevel
        THEN LET upperName == toUpperCase(levelName[1])
             IN  [entry EXCEPT
                    !.level = LogLevel[upperName],
                    !.levelName = upperName,
                    !.meta = IF cleanup THEN NoMeta ELSE @]
        ELSE [entry EXCEPT !.meta = IF cleanup THEN NoMeta ELSE @]

\* the entry object as levelOverrideMiddleware leaves it before it calls next
levelOverride(cleanup, entry) ==
    LET levelName == entry.meta[OverrideKey]
    IN  IF TruthyStr(levelName) /\ toUpperCase(levelName[1]) \in DOMAIN LogLevel
        THEN LET upperName == toUpperCase(levelName[1])
             IN  [entry EXCEPT
                    !.level = LogLevel[upperName],
                    !.levelName = upperName,
                    !.meta = IF cleanup THEN NoMeta ELSE @]
        ELSE entry

\* (mutation of handsOn: every middleware rewrites the level)
handsOnRelevelled(mw, e) ==
    [e EXCEPT !.level = LogLevel.WARN, !.levelName = "WARN"]

\* The entry object as middleware `mw` leaves it before it calls next: relevel
\* assigns entry.level and entry.levelName on the object itself, override and
\* overrideKeep are levelOverrideMiddleware with and without cleanup, the
\* others leave the object alone.
handsOn(mw, e) ==
    CASE mw = "relevel" -> [e EXCEPT !.level = LogLevel.WARN, !.levelName = "WARN"]
      [] mw = "override" -> levelOverride(TRUE, e)
      [] mw = "overrideKeep" -> levelOverride(FALSE, e)
      [] OTHER -> e

\* (mutation of thrown: the error of a middleware is caught and dropped)
thrownSwallowed(st) == st

\* mw(e, next) is called without try/catch: an error thrown by a middleware
\* unwinds the chain
thrown(st) == [st EXCEPT !.threw = "middleware"]

\* the state of one pipeline(entry) call: `index` is the closure variable of
\* composeMiddleware (1-based here), `entry` the entry object, `lvl` the
\* logger's level; the rest records what happened: the middleware invoked
\* with the entry as it was then, the entries `final` was called with, the
\* transports that were handed an entry, whether an error is unwinding and
\* whether a rejection stayed unhandled.
Pipeline(e, lvl) ==
    [index |-> 1, entry |-> e, lvl |-> lvl, seen |-> <<>>, finals |-> <<>>,
     received |-> <<>>, threw |-> "no", unhandled |-> FALSE,
     list |-> middlewareList, pushed |-> <<>>, current |-> TRUE]

\* logger.addMiddleware(mw) during a pipeline call: this._middlewareList.push(mw)
\* writes to the array object itself, which is the array the running composed
\* function reads (`current`) unless a removeMiddleware replaced it meanwhile;
\* `pushed` is what the running function's array has gained
addMiddleware(st, mw) ==
    [st EXCEPT !.list = Append(@, mw),
               !.pushed = IF st.current THEN Append(@, mw) ELSE @]

\* logger.removeMiddleware(mw) during a pipeline call: this._middlewareList is
\* assigned a new, filtered array; the running function keeps the old one
removeMiddleware(st, mw) ==
    LET keep(m) == m # mw
    IN  [st EXCEPT !.list = SelectSeq(@, keep), !.current = FALSE]

\* composeMiddleware: next(e) with `final` the fan-out to `transformers`
RECURSIVE next(_, _, _)
next(middleware, transformers, st) ==
    IF st.index <= Len(middleware \o st.pushed)
    THEN LET mw == (middleware \o st.pushed)[st.index]
             in == [st EXCEPT !.index = @ + 1,
                              !.seen = Append(@, [index |-> st.index, entry |-> st.entry]),
                              !.entry = handsOn(mw, @)]
         IN  CASE mw \in {"pass", "relevel", "override", "overrideKeep", "added"} ->
                    next(middleware, transformers, in)
               [] mw = "adder" ->
                    next(middleware, transformers, addMiddleware(in, "added"))
               [] mw = "remover" ->
                    next(middleware, transformers, removeMiddleware(in, "pass"))
               [] mw = "quiet" ->
                    next(middleware, transformers, [in EXCEPT !.lvl = resolveLevel("ERROR")])
               [] mw = "drop" -> in
               [] mw = "throw" -> thrown(in)
               [] mw = "throwAfter" ->
                    LET r == next(middleware, transformers, in)
                    IN  IF r.threw = "no" THEN thrown(r) ELSE r
               [] mw = "twice" ->
                    LET r == next(middleware, transformers, in)
                    IN  IF r.threw = "no" THEN next(middleware, transformers, r) ELSE r
    ELSE LET fan == fanOutToTransformers(st.entry, transformers, st.lvl, 1)
         IN  [st EXCEPT !.finals = Append(@, st.entry),
                        !.received = @ \o fan.received,
                        !.threw = IF fan.escaped THEN "transport" ELSE "no",
                        !.unhandled = @ \/ fan.unhandled]

\* the level methods of LoggerImpl return early below the level, fatal excepted
fastPath(via, level) ==
    via = "root" /\ level # LogLevel.FATAL /\ level < loggerLevel

\* logger.<method>(message, meta) on the root (via = "root") or on a child of it
LogWith(via, method, meta) ==
    LET level == LogLevel[method]
        called == [NoLog EXCEPT !.called = TRUE, !.via = via, !.level = level,
                                !.threshold = loggerLevel, !.given = Some(meta),
                                !.registered = middlewareList]
    IN  IF fastPath(via, level) \/ ~shouldLog(level, loggerLevel)
        THEN /\ lastLog' = called
             /\ UNCHANGED <<loggerLevel, middlewareList>>
        ELSE LET entry == [level |-> level, levelName |-> method, meta |-> meta]
                 run == next(middlewareList, transports, Pipeline(entry, loggerLevel))
             IN  /\ lastLog' = [called EXCEPT
                        !.idCalled = TRUE, !.tsCalled = TRUE,
                        !.seen = run.seen,
                        !.finals = run.finals,
                        !.out = IF run.finals = <<>> THEN Undefined
                                ELSE Some(run.finals[1]),
                        !.received = run.received,
                        !.threw = run.threw,
                        !.unhandled = run.unhandled]
                 /\ loggerLevel' = run.lvl
                 /\ middlewareList' = run.list

\* logger.<method>(message)
Log(via, method) == LogWith(via, method, NoMeta)

LogRoot ==
    /\ \E method \in Methods : Log("root", method)
    /\ UNCHANGED <<notLog, transports>>

LogChild ==
    /\ \E method \in Methods : Log("child", method)
    /\ UNCHANGED <<notLog, transports>>

\* the values a caller gives the override key in the meta of a log call
OverrideValues ==
    {Undefined, Some("DEBUG"), Some("debug"), Some("silent"), Some("bogus"), Some("")}

\* logger.<method>(message, { "x-log-level": value }), or with a meta without
\* the key
LogRootMeta ==
    /\ \E method \in Methods : \E value \in OverrideValues :
        LogWith("root", method, [k \in {OverrideKey} |-> value])
    /\ UNCHANGED <<notLog, transports>>

LogChildMeta ==
    /\ \E method \in Methods : \E value \in OverrideValues :
        LogWith("child", method, [k \in {OverrideKey} |-> value])
    /\ UNCHANGED <<notLog, transports>>

\* setLevel(level), on the root or through a child
SetLevel ==
    /\ \E name \in LogLevelNames \cup {"verbose"} : loggerLevel' = resolveLevel(name)
    /\ lastLog' = NoLog
    /\ UNCHANGED <<notLog, transports, middlewareList>>

AddTransport ==
    /\ Len(transports) < MaxTransports
    /\ \E t \in TransportPool :
        /\ \A i \in 1..Len(transports) : transports[i] # t
        /\ transports' = Append(transports, t)
    /\ lastLog' = NoLog
    /\ UNCHANGED <<notLog, loggerLevel, middlewareList>>

RemoveTransport ==
    /\ \E t \in TransportPool :
        /\ \E i \in 1..Len(transports) : transports[i].name = t.name
        /\ LET keep(x) == x.name # t.name IN transports' = SelectSeq(transports, keep)
    /\ lastLog' = NoLog
    /\ UNCHANGED <<notLog, loggerLevel, middlewareList>>

AddMiddleware ==
    /\ Len(middlewareList) < MaxMiddleware
    /\ \E mw \in MiddlewareKinds :
        /\ \A i \in 1..Len(middlewareList) : middlewareList[i] # mw
        /\ middlewareList' = Append(middlewareList, mw)
    /\ lastLog' = NoLog
    /\ UNCHANGED <<notLog, loggerLevel, transports>>

RemoveMiddleware ==
    /\ \E mw \in MiddlewareKinds :
        /\ \E i \in 1..Len(middlewareList) : middlewareList[i] = mw
        /\ LET keep(m) == m # mw IN middlewareList' = SelectSeq(middlewareList, keep)
    /\ lastLog' = NoLog
    /\ UNCHANGED <<notLog, loggerLevel, transports>>

LogNext ==
    \/ LogRoot
    \/ LogChild
    \/ SetLevel
    \/ AddTransport
    \/ RemoveTransport
    \/ AddMiddleware
    \/ RemoveMiddleware

LogIdle ==
    /\ loggerLevel = resolveLevel("INFO") /\ transports = <<>>
    /\ middlewareList = <<>> /\ lastLog = NoLog

-----------------------------------------------------------------------------
(* LoggerImpl.flush, LoggerImpl.close *)

\* What a transport's flush / close hook does when called:
\*   none    the transport has no such hook (t.flush?.() is undefined)
\*   void    returns undefined
\*   ok      returns a promise that resolves
\*   reject  returns a promise that rejects
\*   throw   throws synchronously
FlushKinds == {"none", "void", "ok", "reject", "throw"}
CloseKinds == {"none", "ok", "reject"}

HookedPool ==
    [name : {"hooked"}, level : {Undefined}, kind : {"ok"},
     flush : FlushKinds, close : CloseKinds]

RECURSIVE HookedTransports(_)
HookedTransports(n) ==
    IF n = 0 THEN {<<>>}
    ELSE HookedTransports(n - 1) \cup
         {Append(ts, t) : ts \in {x \in HookedTransports(n - 1) : Len(x) = n - 1},
                          t \in HookedPool}

NotSettled == [op |-> "none", ok |-> FALSE]

LcIdle ==
    /\ lcPc = "idle" /\ lcCalls = <<>> /\ lcThrew = FALSE /\ lcDone = NotSettled

\* this._transports.map((t) => t.<hook>?.()) from position i on: the hooks
\* called, in order, with what each returned, until one throws
RECURSIVE mapHooks(_, _, _)
mapHooks(ts, hook, i) ==
    IF i > Len(ts) THEN [calls |-> <<>>, threw |-> FALSE]
    ELSE LET does == ts[i][hook]
             call == <<[hook |-> hook, transport |-> i, result |-> does]>>
         IN  IF does = "none" THEN mapHooks(ts, hook, i + 1)
             ELSE IF does = "throw" THEN [calls |-> call, threw |-> TRUE]
             ELSE LET rest == mapHooks(ts, hook, i + 1)
                  IN  [calls |-> call \o rest.calls, threw |-> rest.threw]

\* (mutation of PromiseAll: Promise.allSettled, which never rejects)
PromiseAllSettled(calls) == TRUE

\* Promise.all(results.filter(Boolean)) fulfils iff no promise among the
\* results rejects
PromiseAll(calls) == \A k \in 1..Len(calls) : calls[k].result # "reject"

\* logger.flush() is called: the flush hooks are called, then it awaits
LoggerFlush ==
    /\ lcPc = "idle"
    /\ LET m == mapHooks(transports, "flush", 1)
       IN  lcCalls' = m.calls /\ lcThrew' = m.threw
    /\ lcPc' = "flush:await"
    /\ lcDone' = NotSettled
    /\ UNCHANGED <<notLc, logVars>>

\* the stage that was awaited failed: a hook threw, or Promise.all rejected
StageFailed(hook) ==
    LET ofStage(c) == c.hook = hook
    IN  lcThrew \/ ~PromiseAll(SelectSeq(lcCalls, ofStage))

LoggerFlushSettle ==
    /\ lcPc = "flush:await"
    /\ lcDone' = [op |-> "flush", ok |-> ~StageFailed("flush")]
    /\ lcPc' = "idle"
    /\ UNCHANGED <<notLc, logVars, lcCalls, lcThrew>>

\* logger.close() is called: it calls this.flush() and awaits it
LoggerClose ==
    /\ lcPc = "idle"
    /\ LET m == mapHooks(transports, "flush", 1)
       IN  lcCalls' = m.calls /\ lcThrew' = m.threw
    /\ lcPc' = "close:await flush"
    /\ lcDone' = NotSettled
    /\ UNCHANGED <<notLc, logVars>>

\* close() resumes after `await this.flush()`: a rejection ends close(),
\* otherwise the close hooks are called and awaited
LoggerCloseAfterFlush ==
    /\ lcPc = "close:await flush"
    /\ IF StageFailed("flush")
       THEN /\ lcDone' = [op |-> "close", ok |-> FALSE]
            /\ lcPc' = "idle"
            /\ UNCHANGED <<lcCalls, lcThrew>>
       ELSE /\ LET m == mapHooks(transports, "close", 1)
               IN  lcCalls' = lcCalls \o m.calls /\ lcThrew' = m.threw
            /\ lcPc' = "close:await close"
            /\ UNCHANGED lcDone
    /\ UNCHANGED <<notLc, logVars>>

LoggerCloseSettle ==
    /\ lcPc = "close:await close"
    /\ lcDone' = [op |-> "close", ok |-> ~StageFailed("close")]
    /\ lcPc' = "idle"
    /\ UNCHANGED <<notLc, logVars, lcCalls, lcThrew>>

LcNext ==
    \/ LoggerFlush
    \/ LoggerFlushSettle
    \/ LoggerClose
    \/ LoggerCloseAfterFlush
    \/ LoggerCloseSettle

\* a logger constructed with transports that have flush / close hooks
LcInit ==
    /\ loggerLevel = resolveLevel("INFO")
    /\ transports \in HookedTransports(MaxHooked)
    /\ middlewareList = <<>>
    /\ lastLog = NoLog
    /\ LcIdle

-----------------------------------------------------------------------------
(* serializeError *)

\* cap depth at 5
CauseDepthCap == 5

\* The logged Error is error 0 and error i has message "level-i". The cause
\* of error i < n is error i + 1. The cause of error n is, by `last`:
\*   "none"   absent
\*   "value"  a value that is not an Error
\*   "back"   the error `back` of the chain (a cyclic chain)
Errors ==
    { e \in [n : 0..MaxCauses, last : {"none", "value", "back"},
             back : 0..MaxCauses, includeStack : BOOLEAN] :
        /\ e.back <= e.n
        /\ e.last # "back" => e.back = 0 }

NoError == [n |-> 0, last |-> "none", back |-> 0, includeStack |-> FALSE]

\* error.cause instanceof Error
causeIsError(err, i) == i < err.n \/ err.last = "back"

\* error.cause, when it is an Error
cause(err, i) == IF i < err.n THEN i + 1 ELSE err.back

\* (mutation of withinDepth: one level more)
withinDepthInclusive(depth) == depth <= CauseDepthCap

\* depth < 5
withinDepth(depth) == depth < CauseDepthCap

\* serializeError(error, includeStack, depth), the LogError as the list of
\* its nodes from the top: the LogError itself, its cause, the cause of that
RECURSIVE serializeError(_, _, _)
serializeError(err, i, depth) ==
    LET logError == [message |-> <<"level", i>>, name |-> "Error",
                     stack |-> IF err.includeStack THEN Some(<<"stack", i>>)
                               ELSE Undefined]
    IN  IF causeIsError(err, i) /\ withinDepth(depth)
        THEN <<logError>> \o serializeError(err, cause(err, i), depth + 1)
        ELSE <<logError>>

ErrInit ==
    /\ errIn \in Errors
    /\ errOut = Undefined

ErrIdle ==
    /\ errIn = NoError
    /\ errOut = Undefined

\* entry.error = serializeError(error, shouldIncludeStack(...))
Serialize ==
    /\ errOut = Undefined
    /\ errOut' = Some(serializeError(errIn, 0, 0))
    /\ UNCHANGED <<notErr, errIn>>

ErrNext ==
    \/ Serialize

-----------------------------------------------------------------------------
(* deduplicationMiddleware *)

\* options.windowMs of the middleware that is modelled
windowMs == 2

\* the values keyFn(entry) takes
DedupKeys == {"a", "b"}

DedupInit ==
    /\ dedupBuffer = [k \in DedupKeys |-> Undefined]
    /\ dedupNow = 0
    /\ dedupTrace = <<>>

DedupIdle == DedupInit

\* the number of entries given to the middleware so far (entry ids)
Arrived ==
    LET isArrival(ev) == ev.what = "entry"
    IN  Len(SelectSeq(dedupTrace, isArrival))

\* (mutation of countUp: duplicates are not counted)
countStuck(state) == state

\* state.count++
countUp(state) == [state EXCEPT !.count = @ + 1]

\* The middleware is given an entry with key `key`: a duplicate is counted
\* and dropped, a new entry starts a timer and is buffered. next is not
\* called.
DedupEntry ==
    /\ Arrived < MaxDedupEntries
    /\ \E key \in DedupKeys :
        /\ dedupTrace' = Append(dedupTrace,
               [what |-> "entry", id |-> Arrived + 1, key |-> key,
                at |-> dedupNow, duplicateCount |-> Undefined])
        /\ IF dedupBuffer[key] # Undefined
           THEN dedupBuffer' = [dedupBuffer EXCEPT ![key] = Some(countUp(@[1]))]
           ELSE dedupBuffer' = [dedupBuffer EXCEPT ![key] =
                    Some([entry |-> Arrived + 1, count |-> 1,
                          timer |-> dedupNow + windowMs])]
    /\ UNCHANGED <<notDedup, dedupNow>>

\* The timer of a buffered key fires: the state is removed and its entry
\* passed to next, with meta.duplicateCount when count > 1.
DedupTimer ==
    /\ \E key \in DedupKeys :
        /\ dedupBuffer[key] # Undefined
        /\ dedupBuffer[key][1].timer <= dedupNow
        /\ LET state == dedupBuffer[key][1]
           IN  dedupTrace' = Append(dedupTrace,
                   [what |-> "next", id |-> state.entry, key |-> key,
                    at |-> dedupNow,
                    duplicateCount |-> IF state.count > 1 THEN Some(state.count)
                                       ELSE Undefined])
        /\ dedupBuffer' = [dedupBuffer EXCEPT ![key] = Undefined]
    /\ UNCHANGED <<notDedup, dedupNow>>

\* One millisecond passes; a timer that is due fires first.
DedupTick ==
    /\ dedupNow < MaxDedupTime
    /\ \A key \in DedupKeys :
        dedupBuffer[key] # Undefined => dedupNow < dedupBuffer[key][1].timer
    /\ dedupNow' = dedupNow + 1
    /\ UNCHANGED <<notDedup, dedupBuffer, dedupTrace>>

DedupNext ==
    \/ DedupEntry
    \/ DedupTimer
    \/ DedupTick

-----------------------------------------------------------------------------
(* asyncContextMiddleware *)

\* the keys objects of the model have; an object maps each key to Undefined
\* (the key is not in the object) or Some(value)
CtxKeys == {"requestId", "userId"}

EmptyObject == [k \in CtxKeys |-> Undefined]

\* the values of the model: strings, and numbers written in decimal
Str(s) == [type |-> "string", text |-> s]
Num(s) == [type |-> "number", text |-> s]

\* truthiness of an optional value
Truthy(o) ==
    /\ o # Undefined
    /\ ~(o[1].type = "string" /\ o[1].text = "")
    /\ ~(o[1].type = "number" /\ o[1].text = "0")

\* Two asynchronous flows run interleaved. AsyncLocalStorage gives each flow
\* the store of the innermost storage.run it is inside, across suspensions.
CtxTasks == {1, 2}

\* the values flow t passes to runInContext and to updateContext
RunValues(t) ==
    IF t = 1
    THEN { [requestId |-> Some(Str("r1")), userId |-> Undefined],
           [requestId |-> Undefined, userId |-> Some(Str("u1"))] }
    ELSE { [requestId |-> Some(Num("2")), userId |-> Some(Str("u2"))] }

UpdateValues(t) ==
    IF t = 1 THEN { [requestId |-> Undefined, userId |-> Some(Str("w1"))] }
    ELSE { [requestId |-> Some(Str("")), userId |-> Undefined] }

\* the meta a log call is given: none, an object literal, or the object the
\* caller keeps
MetaArgs == {"none", "literal", "shared"}

LiteralMeta == [requestId |-> Undefined, userId |-> Some(Str("own"))]

NoCtx ==
    [op |-> "none", task |-> 0, inScope |-> FALSE, nested |-> FALSE,
     values |-> EmptyObject, frame |-> EmptyObject, parent |-> EmptyObject,
     parentBefore |-> EmptyObject, saved |-> EmptyObject,
     given |-> EmptyObject, meta |-> EmptyObject,
     corrBefore |-> Undefined, corr |-> Undefined]

CtxInit ==
    /\ ctxStack = [t \in CtxTasks |-> <<>>]
    /\ sharedMeta = EmptyObject
    /\ lastCtx = NoCtx

CtxIdle == CtxInit

\* storage.getStore() in flow t: Undefined outside any scope
getStore(t) ==
    IF ctxStack[t] = <<>> THEN Undefined
    ELSE Some(ctxStack[t][Len(ctxStack[t])].store)

\* (mutation of spread: the first object wins on a key conflict)
spreadFirstWins(a, b) ==
    [k \in CtxKeys |-> IF a[k] # Undefined THEN a[k] ELSE b[k]]

\* { ...a, ...b } and Object.assign(a, b): the keys of b over those of a
spread(a, b) ==
    [k \in CtxKeys |-> IF b[k] # Undefined THEN b[k] ELSE a[k]]

\* (mutation of inject: the context overwrites the meta)
injectOverwriting(ctx, meta) ==
    [k \in CtxKeys |-> IF ctx[k] # Undefined THEN ctx[k] ELSE meta[k]]

\* for (const [key, value] of Object.entries(ctx))
\*     if (!(key in meta)) meta[key] = value
inject(ctx, meta) ==
    [k \in CtxKeys |->
        IF ctx[k] # Undefined /\ meta[k] = Undefined THEN ctx[k] ELSE meta[k]]

\* String(value): the value itself for a string, the decimal digits for a
\* number
String(v) == [type |-> "string", text |-> v.text]

\* if (ctx.requestId && !entry.correlationId)
\*     entry.correlationId = String(ctx.requestId)
correlate(ctx, correlationId) ==
    IF Truthy(ctx.requestId) /\ ~Truthy(correlationId)
    THEN Some(String(ctx.requestId[1]))
    ELSE correlationId

\* flow t calls runInContext(context, fn) and goes on inside fn
RunInContext ==
    /\ \E t \in CtxTasks : \E context \in RunValues(t) :
        /\ Len(ctxStack[t]) < MaxDepth
        /\ LET parentCtx == getStore(t)
               mergedCtx == IF parentCtx # Undefined
                            THEN spread(parentCtx[1], context)
                            ELSE spread(EmptyObject, context)
               saved == IF parentCtx = Undefined THEN EmptyObject ELSE parentCtx[1]
           IN  /\ ctxStack' = [ctxStack EXCEPT ![t] =
                       Append(@, [store |-> mergedCtx, saved |-> saved])]
               /\ lastCtx' = [NoCtx EXCEPT
                       !.op = "runInContext", !.task = t, !.inScope = TRUE,
                       !.nested = parentCtx # Undefined,
                       !.values = context, !.frame = mergedCtx,
                       !.parentBefore = saved, !.parent = saved]
    /\ UNCHANGED <<notCtx, sharedMeta>>

\* fn and its continuations are done: flow t is back in the enclosing scope
ScopeEnds ==
    /\ \E t \in CtxTasks :
        /\ ctxStack[t] # <<>>
        /\ LET n == Len(ctxStack[t])
               top == ctxStack[t][n]
               outer == SubSeq(ctxStack[t], 1, n - 1)
           IN  /\ ctxStack' = [ctxStack EXCEPT ![t] = outer]
               /\ lastCtx' = [NoCtx EXCEPT
                       !.op = "scope ends", !.task = t,
                       !.inScope = outer # <<>>, !.nested = n > 1,
                       !.frame = IF outer = <<>> THEN EmptyObject
                                 ELSE outer[n - 1].store,
                       !.saved = top.saved]
    /\ UNCHANGED <<notCtx, sharedMeta>>

\* flow t calls updateContext(updates)
UpdateContext ==
    /\ \E t \in CtxTasks : \E updates \in UpdateValues(t) :
        LET ctx == getStore(t)
            n == Len(ctxStack[t])
        IN  IF ctx = Undefined
            THEN /\ lastCtx' = [NoCtx EXCEPT !.op = "updateContext", !.task = t,
                                             !.values = updates]
                 /\ UNCHANGED ctxStack
            ELSE /\ ctxStack' = [ctxStack EXCEPT ![t][n].store = spread(ctx[1], updates)]
                 /\ lastCtx' = [NoCtx EXCEPT
                        !.op = "updateContext", !.task = t, !.inScope = TRUE,
                        !.nested = n > 1, !.values = updates,
                        !.frame = spread(ctx[1], updates),
                        !.parentBefore = IF n > 1 THEN ctxStack[t][n - 1].store
                                         ELSE EmptyObject,
                        !.parent = IF n > 1 THEN ctxStack'[t][n - 1].store
                                   ELSE EmptyObject]
    /\ UNCHANGED <<notCtx, sharedMeta>>

\* flow t logs an entry through a logger with the middleware: entry.meta is
\* the object the caller passed (a new object when none was passed)
CtxLog ==
    /\ \E t \in CtxTasks : \E arg \in MetaArgs : \E correlationId \in {Undefined, Some(Str("c0"))} :
        LET given == CASE arg = "none" -> EmptyObject
                       [] arg = "literal" -> LiteralMeta
                       [] arg = "shared" -> sharedMeta
            ctx == getStore(t)
            meta == IF ctx # Undefined THEN inject(ctx[1], given) ELSE given
        IN  /\ sharedMeta' = IF arg = "shared" THEN meta ELSE sharedMeta
            /\ lastCtx' = [NoCtx EXCEPT
                   !.op = "log", !.task = t, !.inScope = ctx # Undefined,
                   !.frame = IF ctx # Undefined THEN ctx[1] ELSE EmptyObject,
                   !.given = given, !.meta = meta,
                   !.corrBefore = correlationId,
                   !.corr = IF ctx # Undefined THEN correlate(ctx[1], correlationId)
                            ELSE correlationId]
    /\ UNCHANGED <<notCtx, ctxStack>>

CtxNext ==
    \/ RunInContext
    \/ ScopeEnds
    \/ UpdateContext
    \/ CtxLog

-----------------------------------------------------------------------------
(* LoggerImpl.child, ChildLoggerImpl: the loggers derived from one root *)

\* the contexts passed to child()
ChildContexts ==
    { [requestId |-> Some(Str("c1")), userId |-> Undefined],
      [requestId |-> Undefined, userId |-> Some(Str("c2"))],
      [requestId |-> Some(Str("c3")), userId |-> Some(Str("c3"))] }

\* options.context of the root
BaseContexts ==
    { EmptyObject, [requestId |-> Some(Str("c0")), userId |-> Undefined] }

\* logger 0 is the root LoggerImpl, logger x > 0 the ChildLoggerImpl children[x]
Loggers == 0..Len(children)

\* this._context of logger x
contextOf(x) == IF x = 0 THEN baseContext ELSE children[x].context

\* the LoggerImpl a logger's level methods act on: the root itself, or a
\* child's this._parent
levelHolder(x) == IF x = 0 THEN 0 ELSE children[x].parent

NoFam ==
    [op |-> "none", via |-> 0, level |-> 0, passed |-> FALSE, context |-> Undefined]

FamInit ==
    /\ loggerLevel = resolveLevel("INFO")
    /\ transports = <<>>
    /\ middlewareList = <<>>
    /\ lastLog = NoLog
    /\ children = <<>>
    /\ baseContext \in BaseContexts
    /\ levelSet = "INFO"
    /\ lastFam = NoFam

FamIdle ==
    /\ children = <<>> /\ baseContext = EmptyObject
    /\ levelSet = "INFO" /\ lastFam = NoFam

\* x.child(context): new ChildLoggerImpl(parent, { ...x._context, ...context })
\* where parent is x for the root and x._parent for a child
Child ==
    /\ Len(children) < MaxChildren
    /\ \E x \in Loggers : \E context \in ChildContexts :
        children' = Append(children,
            [parent |-> levelHolder(x),
             context |-> spread(contextOf(x), context),
             chain |-> (IF x = 0 THEN <<>> ELSE children[x].chain) \o <<context>>])
    /\ lastFam' = [NoFam EXCEPT !.op = "child"]
    /\ UNCHANGED <<notFam, logVars, baseContext, levelSet>>

\* x.setLevel(level), for a level name of the registry
FamSetLevel ==
    /\ \E x \in Loggers : \E level \in LogLevelNames :
        /\ levelHolder(x) = 0
        /\ loggerLevel' = resolveLevel(level)
        /\ levelSet' = level
        /\ lastFam' = [NoFam EXCEPT !.op = "setLevel", !.via = x]
    /\ UNCHANGED <<notFam, transports, middlewareList, lastLog, children, baseContext>>

\* LogLevelValueMap[this._level] ?? "INFO", on the logger's level holder
getLevel(x) ==
    IF loggerLevel \in DOMAIN LogLevelValueMap
    THEN LogLevelValueMap[loggerLevel]
    ELSE "INFO"

\* resolveLevel(level) >= this._level, on the logger's level holder
isLevelEnabled(x, level) == resolveLevel(level) >= loggerLevel

\* (mutation of entryContext: the context is always put into the entry)
entryContextAlways(context) == Some(context)

\* context: Object.keys(context).length > 0 ? context : undefined
entryContext(context) ==
    IF \E k \in CtxKeys : context[k] # Undefined THEN Some(context) ELSE Undefined

\* x.<method>(message): the root goes through its level method and _log, a
\* child calls _parent._logWithContext with its own context
FamLog ==
    /\ \E x \in Loggers : \E method \in Methods :
        LET level == LogLevel[method]
            passed == /\ ~fastPath(IF x = 0 THEN "root" ELSE "child", level)
                      /\ shouldLog(level, loggerLevel)
        IN  lastFam' = [NoFam EXCEPT
                !.op = "log", !.via = x, !.level = level, !.passed = passed,
                !.context = IF passed THEN entryContext(contextOf(x)) ELSE Undefined]
    /\ UNCHANGED <<notFam, logVars, children, baseContext, levelSet>>

\* the levels a timer is started with: startTimer(level?)
TimerLevels == {Undefined, Some("DEBUG"), Some("ERROR")}

\* x.startTimer(level).done(message): a child returns _parent.startTimer(level),
\* whose done calls this[methodKey](message, merged) with `this` the logger
\* startTimer ran on; startTimer itself changes nothing
TimerDone ==
    /\ \E x \in Loggers : \E given \in TimerLevels :
        LET logLevel == IF given = Undefined THEN "INFO" ELSE given[1]
            this == levelHolder(x)
            level == LogLevel[logLevel]
            passed == /\ ~fastPath(IF this = 0 THEN "root" ELSE "child", level)
                      /\ shouldLog(level, loggerLevel)
        IN  lastFam' = [NoFam EXCEPT
                !.op = "timer", !.via = x, !.level = level, !.passed = passed,
                !.context = IF passed THEN entryContext(contextOf(this)) ELSE Undefined]
    /\ UNCHANGED <<notFam, logVars, children, baseContext, levelSet>>

FamNext ==
    \/ Child
    \/ FamSetLevel
    \/ FamLog
    \/ TimerDone

-----------------------------------------------------------------------------
(* webhookTransport.sendBatch and lokiTransport.pushWithRetry: one batch sent
   over HTTP, with retries *)

Sinks == {"webhook", "loki"}

\* what one fetch() call comes to: a response that is ok, a response with a
\* 4xx or a 5xx status, or a rejection (a transport-level failure)
FetchOutcomes == {"ok", "4xx", "5xx", "error"}

RetryInit ==
    /\ sink \in Sinks
    /\ retryEnabled \in BOOLEAN
    /\ maxRetries \in 0..MaxMaxRetries
    /\ attempt = 0
    /\ sendPc = "idle"
    /\ fetched = <<>>
    /\ delays = <<>>
    /\ consoleErrors = <<>>
    /\ settled = "none"

RetryIdle ==
    /\ sink = "webhook" /\ retryEnabled = FALSE /\ maxRetries = 0
    /\ attempt = 0 /\ sendPc = "idle" /\ fetched = <<>> /\ delays = <<>>
    /\ consoleErrors = <<>> /\ settled = "none"

\* pushWithRetry: const attempts = retryEnabled ? maxRetries : 1
attempts == IF retryEnabled THEN maxRetries ELSE 1

\* sendBatch(batch) / pushWithRetry(batch) is called with a new batch. The
\* for loop of pushWithRetry does not run at all when attempts is 0.
SendBatch ==
    /\ sendPc \in {"idle", "done"}
    /\ attempt' = 0
    /\ fetched' = <<>>
    /\ delays' = <<>>
    /\ IF sink = "loki" /\ ~(0 < attempts)
       THEN /\ consoleErrors' = <<"failed after retries">>
            /\ sendPc' = "done"
            /\ settled' = "resolved"
       ELSE /\ consoleErrors' = <<>>
            /\ sendPc' = "fetch"
            /\ settled' = "pending"
    /\ UNCHANGED <<notRetry, sink, retryEnabled, maxRetries>>

\* webhook: if (!response.ok && retry && attempt < maxRetries), and the same
\* test without the response in the catch block
webhookRetries(outcome) == outcome # "ok" /\ retryEnabled /\ attempt < maxRetries

\* the awaited fetch() settles and the code runs up to its next await or to
\* its end
FetchSettles ==
    /\ sendPc = "fetch"
    /\ \E outcome \in FetchOutcomes :
        /\ fetched' = Append(fetched, outcome)
        /\ IF sink = "webhook"
           THEN IF webhookRetries(outcome)
                THEN /\ delays' = Append(delays, Min(1000 * 2 ^ attempt, 30000))
                     /\ sendPc' = "backoff"
                     /\ UNCHANGED <<consoleErrors, settled>>
                ELSE /\ sendPc' = "done"
                     /\ settled' = "resolved"
                     /\ UNCHANGED <<consoleErrors, delays>>
           ELSE CASE outcome = "ok" ->
                       /\ sendPc' = "done"
                       /\ settled' = "resolved"
                       /\ UNCHANGED <<consoleErrors, delays>>
                  [] outcome = "4xx" ->
                       /\ consoleErrors' = Append(consoleErrors, "push failed: 4xx")
                       /\ sendPc' = "done"
                       /\ settled' = "resolved"
                       /\ UNCHANGED delays
                  [] OTHER ->
                       IF attempt < attempts - 1
                       THEN /\ delays' = Append(delays, 100 * 2 ^ attempt)
                            /\ sendPc' = "backoff"
                            /\ UNCHANGED <<consoleErrors, settled>>
                       ELSE /\ consoleErrors' = Append(consoleErrors, "failed after retries")
                            /\ sendPc' = "done"
                            /\ settled' = "resolved"
                            /\ UNCHANGED delays
    /\ UNCHANGED <<notRetry, sink, retryEnabled, maxRetries, attempt>>

\* the backoff timer fires: sendBatch(entries, attempt + 1), or the next
\* iteration of the for loop
BackoffElapses ==
    /\ sendPc = "backoff"
    /\ attempt' = attempt + 1
    /\ sendPc' = "fetch"
    /\ UNCHANGED <<notRetry, sink, retryEnabled, maxRetries, fetched, delays,
                   consoleErrors, settled>>

RetryNext ==
    \/ SendBatch
    \/ FetchSettles
    \/ BackoffElapses

-----------------------------------------------------------------------------
(* samplingMiddleware: a rate limit per key and window *)

\* options.windowMs and options.priorityLevel (the default) of the middleware
samplingWindowMs == 2
priorityLevel == 40

\* the bucket map is cleaned when it holds more keys than this
CleanupSize == 2000

\* keyFn(entry) is entry.message
SampleKeys == {"a", "b"}

\* the entries that arrive: by message and level
SampleInputs ==
    { [message |-> "a", level |-> LogLevel.INFO],
      [message |-> "a", level |-> LogLevel.WARN],
      [message |-> "b", level |-> LogLevel.INFO] }

\* sampleRate and the values of Math.random(), in hundredths
SampleRates == {100, 50}
Randoms == {25, 75}

SamplingInit ==
    /\ buckets = [k \in SampleKeys |-> Undefined]
    /\ sampleNow = 0
    /\ sampleTrace = <<>>
    /\ \/ maxPerWindow \in 0..MaxPerWindow /\ sampleRate = 100
       \/ maxPerWindow = 1 /\ sampleRate = 50

SamplingIdle ==
    /\ buckets = [k \in SampleKeys |-> Undefined]
    /\ sampleNow = 0 /\ sampleTrace = <<>>
    /\ maxPerWindow = 0 /\ sampleRate = 100

\* (mutation of windowExpired: a window lasts one timestamp longer)
windowExpiredLate(bucket, t) == t - bucket.windowStart > samplingWindowMs

\* now - bucket.windowStart >= windowMs
windowExpired(bucket, t) == t - bucket.windowStart >= samplingWindowMs

\* the periodic cleanup: for (const [k, b] of buckets)
\*     if (b.windowStart < now - windowMs * 2) buckets.delete(k)
cleanup(bs, t) ==
    IF Cardinality({k \in SampleKeys : bs[k] # Undefined}) > CleanupSize
    THEN [k \in SampleKeys |->
            IF bs[k] # Undefined /\ bs[k][1].windowStart < t - samplingWindowMs * 2
            THEN Undefined ELSE bs[k]]
    ELSE bs

\* the middleware is called with an entry whose timestamp is the present time
SamplingEntry ==
    /\ Len(sampleTrace) < MaxSampled
    /\ \E in \in SampleInputs : \E random \in Randoms :
        LET entry == [message |-> in.message, level |-> in.level, timestamp |-> sampleNow]
            key == entry.message
            seen(forwarded) ==
                Append(sampleTrace, [entry |-> entry, forwarded |-> forwarded])
        IN  IF entry.level >= priorityLevel
            THEN /\ sampleTrace' = seen(TRUE)
                 /\ UNCHANGED buckets
            ELSE IF sampleRate < 100 /\ random > sampleRate
            THEN /\ sampleTrace' = seen(FALSE)
                 /\ UNCHANGED buckets
            ELSE LET old == buckets[key]
                     bucket == IF old = Undefined \/ windowExpired(old[1], sampleNow)
                               THEN [count |-> 0, windowStart |-> sampleNow]
                               ELSE old[1]
                     passes == bucket.count < maxPerWindow
                     counted == IF passes THEN [bucket EXCEPT !.count = @ + 1]
                                ELSE bucket
                 IN  /\ sampleTrace' = seen(passes)
                     /\ buckets' = cleanup([buckets EXCEPT ![key] = Some(counted)],
                                           sampleNow)
    /\ UNCHANGED <<notSampling, sampleNow, maxPerWindow, sampleRate>>

\* time passes
SamplingTick ==
    /\ sampleNow < MaxSampleTime
    /\ sampleNow' = sampleNow + 1
    /\ UNCHANGED <<notSampling, buckets, sampleTrace, maxPerWindow, sampleRate>>

SamplingNext ==
    \/ SamplingEntry
    \/ SamplingTick

-----------------------------------------------------------------------------
(* alertMiddleware: rules that fire on matching entries *)

\* The rules a middleware is made with. `when` is the condition by name:
\* "errors" is entry.level >= 50, "all" is true. `onAlert` is what the callback
\* does: it returns, throws, or returns a promise that rejects. Rules are
\* identified by their names.
ErrorsRule ==
    [name |-> "errors", when |-> "errors", threshold |-> Some(2),
     windowMs |-> Some(2), cooldownMs |-> Some(3), onAlert |-> "throw"]

AllRule ==
    [name |-> "all", when |-> "all", threshold |-> Undefined,
     windowMs |-> Undefined, cooldownMs |-> Some(2), onAlert |-> "reject"]

BurstRule ==
    [name |-> "burst", when |-> "all", threshold |-> Some(3),
     windowMs |-> Some(2), cooldownMs |-> Undefined, onAlert |-> "ok"]

RuleLists == { <<ErrorsRule, AllRule>>, <<BurstRule>>, <<AllRule, BurstRule>> }

RuleNames == {"errors", "all", "burst"}

\* states.set(rule.name, { entries: [], lastFired: -Infinity })
AlertInit ==
    /\ rules \in RuleLists
    /\ states = [n \in RuleNames |-> [entries |-> <<>>, lastFired |-> -Infinity]]
    /\ alertNow = 0
    /\ alertTrace = <<>>

AlertIdle ==
    /\ rules = <<>>
    /\ states = [n \in RuleNames |-> [entries |-> <<>>, lastFired |-> -Infinity]]
    /\ alertNow = 0 /\ alertTrace = <<>>

\* rule.when(entry)
when(rule, entry) ==
    IF rule.when = "errors" THEN entry.level >= 50 ELSE TRUE

\* x ?? d
orDefault(x, d) == IF x = Undefined THEN d ELSE x[1]

\* state.entries.filter((e) => now - e.timestamp < windowMs), when windowMs
\* is finite
trim(es, t, windowOf) ==
    IF windowOf # Infinity
    THEN LET keep(e) == t - e.timestamp < windowOf IN SelectSeq(es, keep)
    ELSE es

\* (mutation of onAlertGuarded: no try/catch and no catch handler)
onAlertUnguarded(rule) ==
    [escaped |-> rule.onAlert = "throw", unhandled |-> rule.onAlert = "reject"]

\* try { result = rule.onAlert(alertEntries); result.catch(() => {}) } catch {}
onAlertGuarded(rule) == [escaped |-> FALSE, unhandled |-> FALSE]

\* the for loop over the rules, from rule i on; `run` has the states map, the
\* alerts fired, whether an error left the loop and whether a rejection stayed
\* unhandled
RECURSIVE evaluate(_, _, _)
evaluate(entry, i, run) ==
    IF i > Len(rules) \/ run.escaped THEN run
    ELSE LET rule == rules[i]
             state == run.states[rule.name]
             windowOf == orDefault(rule.windowMs, Infinity)
             threshold == orDefault(rule.threshold, 1)
             cooldownMs == orDefault(rule.cooldownMs, 0)
             entries == Append(trim(state.entries, entry.timestamp, windowOf), entry)
         IN  IF ~when(rule, entry) THEN evaluate(entry, i + 1, run)
             ELSE IF /\ Len(entries) >= threshold
                     /\ entry.timestamp - state.lastFired >= cooldownMs
             THEN LET called == onAlertGuarded(rule)
                  IN  evaluate(entry, i + 1,
                        [states |-> [run.states EXCEPT ![rule.name] =
                                        [entries |-> <<>>, lastFired |-> entry.timestamp]],
                         fired |-> Append(run.fired,
                                        [rule |-> rule.name, entries |-> entries]),
                         escaped |-> called.escaped,
                         unhandled |-> run.unhandled \/ called.unhandled])
             ELSE evaluate(entry, i + 1,
                        [run EXCEPT !.states[rule.name].entries = entries])

\* the middleware is called with an entry whose timestamp is the present time
AlertEntry ==
    /\ Len(alertTrace) < MaxAlertEntries
    /\ \E level \in {LogLevel.INFO, LogLevel.ERROR} :
        LET entry == [id |-> Len(alertTrace) + 1, timestamp |-> alertNow, level |-> level]
            run == evaluate(entry, 1,
                     [states |-> states, fired |-> <<>>, escaped |-> FALSE,
                      unhandled |-> FALSE])
        IN  /\ states' = run.states
            /\ alertTrace' = Append(alertTrace,
                    [entry |-> entry, fired |-> run.fired,
                     forwarded |-> IF run.escaped THEN 0 ELSE 1,
                     threw |-> run.escaped, unhandled |-> run.unhandled])
    /\ UNCHANGED <<notAlert, rules, alertNow>>

\* time passes
AlertTick ==
    /\ alertNow < MaxAlertTime
    /\ alertNow' = alertNow + 1
    /\ UNCHANGED <<notAlert, rules, states, alertTrace>>

AlertNext ==
    \/ AlertEntry
    \/ AlertTick

\* ---- lokiTransport: write, flush and the flush timer ----

LokiInit ==
    /\ lokiBatchSize \in 1..MaxLokiBatchSize
    /\ lokiBuffer = <<>>
    /\ lokiTimer = "null"
    /\ lokiWrites = 0
    /\ lokiPushed = <<>>

\* doFlush, up to its await: the buffer is taken and given to pushWithRetry
lokiDoFlush(buf) ==
    /\ lokiBuffer' = <<>>
    /\ lokiPushed' = IF buf = <<>> THEN lokiPushed ELSE Append(lokiPushed, buf)

\* schedule(): a timeout is set only when `timer` is falsy; the handle of a
\* cancelled timeout is as truthy as that of a pending one
lokiSchedule ==
    lokiTimer' = IF lokiTimer = "null" THEN "pending" ELSE lokiTimer

\* write(entry)
LokiWrite ==
    /\ lokiWrites < MaxLokiWrites
    /\ lokiWrites' = lokiWrites + 1
    /\ LET buf == Append(lokiBuffer, lokiWrites + 1)
       IN  IF Len(buf) >= lokiBatchSize
           THEN lokiTimer' = "null" /\ lokiDoFlush(buf)
           ELSE lokiSchedule /\ lokiBuffer' = buf /\ UNCHANGED lokiPushed
    /\ UNCHANGED <<notLoki, lokiBatchSize>>

\* the timeout set by schedule() fires
LokiTimeout ==
    /\ lokiTimer = "pending"
    /\ lokiTimer' = "null"
    /\ lokiDoFlush(lokiBuffer)
    /\ UNCHANGED <<notLoki, lokiBatchSize, lokiWrites>>

\* flush(): clearTimeout(timer) cancels the timeout and leaves the handle in
\* `timer`
LokiFlush ==
    /\ lokiTimer' = IF lokiTimer = "pending" THEN "cancelled" ELSE lokiTimer
    /\ lokiDoFlush(lokiBuffer)
    /\ UNCHANGED <<notLoki, lokiBatchSize, lokiWrites>>

LokiNext ==
    \/ LokiWrite
    \/ LokiTimeout
    \/ LokiFlush

LokiIdle ==
    /\ lokiBatchSize = 1 /\ lokiBuffer = <<>> /\ lokiTimer = "null"
    /\ lokiWrites = 0 /\ lokiPushed = <<>>

\* ---- batchTransport around an inner transformer that writes to the wrapper ----

\* What the inner transformer does when it is handed an entry for the first
\* time: nothing more, or it calls transform on the wrapper with a new entry
\* (which is of the kind that follows)
ReentrantKinds == {"ok", "reenter", "reenterDeep"}

followUp(kind) == IF kind = "reenterDeep" THEN "reenter" ELSE "ok"

innerWrites(st, entry) ==
    /\ entry.kind # "ok"
    /\ \A k \in 1..Len(st.handed) : st.handed[k].id # entry.id

\* scheduleFlush() as a function of `flushTimer`
scheduled(timer) == IF timer # Undefined THEN timer ELSE Some(now + flushIntervalMs)

\* (mutation of pending: the buffer is not swapped)
pendingKept(batch) == batch

\* const batch = buffer; buffer = []: the pending buffer after the swap
pending(batch) == <<>>

\* transform(entry) and doFlush()'s loop over the batch, on the state
\* st = [buffer, timer, handed, writes, written]: inner.transform(entry) may
\* call transform again before it returns
RECURSIVE transform(_, _)
RECURSIVE handOver(_, _)
transform(st, entry) ==
    LET pushed == [st EXCEPT !.buffer = Append(@, entry)]
    IN  IF batchFull(Len(pushed.buffer))
        THEN handOver(pushed.buffer, [pushed EXCEPT !.buffer = pending(@)])
        ELSE [pushed EXCEPT !.timer = scheduled(@)]

handOver(batch, st) ==
    IF batch = <<>> THEN st
    ELSE LET entry == Head(batch)
             called == [st EXCEPT !.handed = Append(@, Call("transform", entry.id))]
             new == [id |-> st.writes + 1, kind |-> followUp(entry.kind)]
             returned ==
                 IF innerWrites(st, entry)
                 THEN transform([called EXCEPT !.writes = @ + 1,
                                               !.written = Append(@, new)], new)
                 ELSE called
         IN  handOver(Tail(batch), returned)

\* doFlush()
flushing(st) ==
    IF st.buffer = <<>> THEN st
    ELSE handOver(st.buffer, [st EXCEPT !.buffer = pending(@)])

Entered(timer, writes) ==
    [buffer |-> batchBuffer, timer |-> timer, handed |-> innerLog,
     writes |-> writes, written |-> <<>>]

\* what an operation that ends in the state `r` leaves behind
Left(op, batch, r) ==
    /\ batchBuffer' = r.buffer
    /\ flushTimer' = r.timer
    /\ innerLog' = r.handed
    /\ nBatchWrites' = r.writes
    /\ lastOp' = [op |-> op, before |-> batchBuffer, batch |-> batch,
                  handed |-> SubSeq(r.handed, Len(innerLog) + 1, Len(r.handed)),
                  written |-> r.written, waited |-> 0]
    /\ UNCHANGED <<notBatch, batchSize, innerHooks, now, firstAt, hookLog, escaped,
                   unhandled, pc, started, lastDone>>

\* transform(entry), called from outside
ReentrantTransform ==
    /\ nBatchWrites < MaxOuterWrites
    /\ \E kind \in ReentrantKinds :
        LET entry == [id |-> nBatchWrites + 1, kind |-> kind]
            pushed == Append(batchBuffer, entry)
        IN  Left("transform",
                 IF batchFull(Len(pushed)) THEN pushed ELSE <<>>,
                 transform(Entered(flushTimer, nBatchWrites + 1), entry))

\* the setTimeout callback: flushTimer = null; doFlush()
ReentrantTimer ==
    /\ flushTimer # Undefined
    /\ now >= flushTimer[1]
    /\ Left("timer", batchBuffer, flushing(Entered(Undefined, nBatchWrites)))

\* flush(), of a wrapper whose inner transformer has no flush
ReentrantFlush ==
    /\ pc = "idle"
    /\ Left("flush", batchBuffer, flushing(Entered(Undefined, nBatchWrites)))

\* a component that is constructed and left alone
RingIdle ==
    /\ maxSize = 1 /\ buffer = <<>> /\ head = 0 /\ count = 0
    /\ written = <<>> /\ nWrites = 0 /\ ringOut = NoResult

BatchIdle ==
    /\ batchSize = 1 /\ innerHooks = {} /\ batchBuffer = <<>>
    /\ flushTimer = Undefined /\ now = 0 /\ firstAt = 0 /\ innerLog = <<>>
    /\ hookLog = <<>> /\ escaped = FALSE /\ unhandled = FALSE /\ pc = "idle"
    /\ started = 0 /\ lastOp = NoOp /\ lastDone = NoneDone /\ nBatchWrites = 0

-----------------------------------------------------------------------------
(* Specifications *)

InitRing == RingInit /\ BatchIdle /\ LogIdle /\ LcIdle /\ ErrIdle /\ DedupIdle /\ CtxIdle /\ FamIdle /\ RetryIdle /\ SamplingIdle /\ AlertIdle /\ LokiIdle

NextRing == RingNext

SpecRing == InitRing /\ [][NextRing]_vars

InitBatch == BatchInit /\ RingIdle /\ LogIdle /\ LcIdle /\ ErrIdle /\ DedupIdle /\ CtxIdle /\ FamIdle /\ RetryIdle /\ SamplingIdle /\ AlertIdle /\ LokiIdle

NextBatch == BatchNext

SpecBatch == InitBatch /\ [][NextBatch]_vars

\* a wrapper around an inner transformer that writes to the wrapper
InitReentrant ==
    /\ batchSize \in 1..MaxBatchSize
    /\ innerHooks = {}
    /\ batchBuffer = <<>> /\ flushTimer = Undefined /\ now = 0 /\ firstAt = 0
    /\ innerLog = <<>> /\ hookLog = <<>> /\ escaped = FALSE /\ unhandled = FALSE
    /\ pc = "idle" /\ started = 0 /\ lastOp = NoOp /\ lastDone = NoneDone
    /\ nBatchWrites = 0
    /\ RingIdle /\ LogIdle /\ LcIdle /\ ErrIdle /\ DedupIdle /\ CtxIdle /\ FamIdle /\ RetryIdle /\ SamplingIdle /\ AlertIdle /\ LokiIdle

NextReentrant ==
    \/ ReentrantTransform
    \/ ReentrantTimer
    \/ ReentrantFlush
    \/ BatchTick

SpecReentrant == InitReentrant /\ [][NextReentrant]_vars

InitLog == LogInit /\ RingIdle /\ BatchIdle /\ LcIdle /\ ErrIdle /\ DedupIdle /\ CtxIdle /\ FamIdle /\ RetryIdle /\ SamplingIdle /\ AlertIdle /\ LokiIdle

NextLog == LogNext

SpecLog == InitLog /\ [][NextLog]_vars

\* new LoggerImpl({level, transports, middleware}): a logger constructed with
\* its transports and middleware, then only logged to
Named(n) == CHOOSE t \in TransportPool : t.name = n

BuiltTransports ==
    { <<>>, <<Named("plain")>>, <<Named("debug")>>,
      <<Named("warn"), Named("plain")>> }

RECURSIVE Chains(_)
Chains(n) ==
    IF n = 0 THEN {<<>>}
    ELSE Chains(n - 1) \cup
         {Append(c, mw) : c \in {x \in Chains(n - 1) : Len(x) = n - 1}, mw \in ChainKinds}

InitBuilt ==
    /\ loggerLevel \in {resolveLevel("INFO"), resolveLevel("debug")}
    /\ transports \in BuiltTransports
    /\ middlewareList \in Chains(MaxChain)
    /\ lastLog = NoLog
    /\ RingIdle /\ BatchIdle /\ LcIdle /\ ErrIdle /\ DedupIdle /\ CtxIdle /\ FamIdle /\ RetryIdle /\ SamplingIdle /\ AlertIdle /\ LokiIdle

NextBuilt ==
    \/ LogRoot
    \/ LogChild

SpecBuilt == InitBuilt /\ [][NextBuilt]_vars

\* a logger constructed with levelOverrideMiddleware among its middleware and
\* with a transport whose own level is SILENT among its transports
SilentTransport == [name |-> "silent", level |-> Some("SILENT"), kind |-> "ok"]

OverrideTransports ==
    { <<Named("plain")>>, <<SilentTransport, Named("plain")>>,
      <<Named("warn"), SilentTransport>> }

OverrideChains ==
    { <<"override">>, <<"overrideKeep">>, <<"override", "quiet">>,
      <<"relevel", "override">> }

InitOverride ==
    /\ loggerLevel \in {resolveLevel("INFO"), resolveLevel("SILENT")}
    /\ transports \in OverrideTransports
    /\ middlewareList \in OverrideChains
    /\ lastLog = NoLog
    /\ RingIdle /\ BatchIdle /\ LcIdle /\ ErrIdle /\ DedupIdle /\ CtxIdle /\ FamIdle /\ RetryIdle /\ SamplingIdle /\ AlertIdle /\ LokiIdle

NextOverride ==
    \/ LogRootMeta
    \/ LogChildMeta

SpecOverride == InitOverride /\ [][NextOverride]_vars

\* a logger some of whose middleware call addMiddleware or removeMiddleware on
\* it while they handle an entry
InFlightChains ==
    { <<"pass">>, <<"adder">>, <<"pass", "adder">>, <<"remover", "pass">>,
      <<"remover", "adder">>, <<"adder", "remover">> }

InitInFlight ==
    /\ loggerLevel = resolveLevel("INFO")
    /\ transports \in {<<Named("plain")>>, <<Named("plain"), Named("warn")>>}
    /\ middlewareList \in InFlightChains
    /\ lastLog = NoLog
    /\ RingIdle /\ BatchIdle /\ LcIdle /\ ErrIdle /\ DedupIdle /\ CtxIdle /\ FamIdle /\ RetryIdle /\ SamplingIdle /\ AlertIdle /\ LokiIdle

LogRootInFlight == Len(middlewareList) < MaxRegistered /\ LogRoot

LogChildInFlight == Len(middlewareList) < MaxRegistered /\ LogChild

NextInFlight ==
    \/ LogRootInFlight
    \/ LogChildInFlight

SpecInFlight == InitInFlight /\ [][NextInFlight]_vars

InitLc == LcInit /\ RingIdle /\ BatchIdle /\ ErrIdle /\ DedupIdle /\ CtxIdle /\ FamIdle /\ RetryIdle /\ SamplingIdle /\ AlertIdle /\ LokiIdle

NextLc == LcNext

SpecLc == InitLc /\ [][NextLc]_vars

InitErr == ErrInit /\ RingIdle /\ BatchIdle /\ LogIdle /\ LcIdle /\ DedupIdle /\ CtxIdle /\ FamIdle /\ RetryIdle /\ SamplingIdle /\ AlertIdle /\ LokiIdle

NextErr == ErrNext

SpecErr == InitErr /\ [][NextErr]_vars

InitDedup == DedupInit /\ RingIdle /\ BatchIdle /\ LogIdle /\ LcIdle /\ ErrIdle /\ CtxIdle /\ FamIdle /\ RetryIdle /\ SamplingIdle /\ AlertIdle /\ LokiIdle

NextDedup == DedupNext

SpecDedup == InitDedup /\ [][NextDedup]_vars

InitCtx ==
    CtxInit /\ RingIdle /\ BatchIdle /\ LogIdle /\ LcIdle /\ ErrIdle /\ DedupIdle /\ FamIdle /\ RetryIdle /\ SamplingIdle /\ AlertIdle /\ LokiIdle

NextCtx == CtxNext

SpecCtx == InitCtx /\ [][NextCtx]_vars

InitFam ==
    FamInit /\ RingIdle /\ BatchIdle /\ LcIdle /\ ErrIdle /\ DedupIdle /\ CtxIdle /\ RetryIdle /\ SamplingIdle /\ AlertIdle /\ LokiIdle

NextFam == FamNext

SpecFam == InitFam /\ [][NextFam]_vars

InitRetry ==
    RetryInit /\ RingIdle /\ BatchIdle /\ LogIdle /\ LcIdle /\ ErrIdle /\ DedupIdle /\ CtxIdle /\ FamIdle /\ SamplingIdle /\ AlertIdle /\ LokiIdle

NextRetry == RetryNext

SpecRetry == InitRetry /\ [][NextRetry]_vars

InitSampling ==
    SamplingInit /\ RingIdle /\ BatchIdle /\ LogIdle /\ LcIdle /\ ErrIdle /\ DedupIdle /\ CtxIdle /\ FamIdle /\ RetryIdle /\ AlertIdle /\ LokiIdle

NextSampling == SamplingNext

SpecSampling == InitSampling /\ [][NextSampling]_vars

InitAlert ==
    AlertInit /\ RingIdle /\ BatchIdle /\ LogIdle /\ LcIdle /\ ErrIdle /\ DedupIdle /\ CtxIdle /\ FamIdle /\ RetryIdle /\ SamplingIdle /\ LokiIdle

NextAlert == AlertNext

SpecAlert == InitAlert /\ [][NextAlert]_vars

InitLoki == LokiInit /\ RingIdle /\ BatchIdle /\ LogIdle /\ LcIdle /\ ErrIdle /\ DedupIdle /\ CtxIdle /\ FamIdle /\ RetryIdle /\ SamplingIdle /\ AlertIdle

NextLoki == LokiNext

SpecLoki == InitLoki /\ [][NextLoki]_vars

-----------------------------------------------------------------------------
(* Properties of the ring buffer *)

\* The last k elements of a sequence.
LastK(seq, k) == SubSeq(seq, Len(seq) - k + 1, Len(seq))

\* What the ring is meant to hold: the last min(k, N) entries written since
\* the most recent clear, oldest first (from the history, not from the layout).
Stored == LastK(written, Min(Len(written), maxSize))

QueryPasses(e, q) ==
    /\ (q.level # Undefined => e.level >= resolveLevel(q.level[1]))
    /\ (q.since # Undefined => e.timestamp >= q.since[1])

Filtered(q) == LET keep(e) == QueryPasses(e, q) IN SelectSeq(Stored, keep)

\* C2: for every capacity and every sequence of write and clear, getEntries()
\* with no filter returns exactly the last min(k, N) entries written since the
\* most recent clear, oldest first.
C2_RingEviction ==
    /\ getEntries(NoQuery) = Stored
    /\ (ringOut.called /\ ringOut.query = NoQuery) => ringOut.entries = Stored

\* a getEntries() call on a ring that wrapped after a clear
C2_Witness ==
    /\ ringOut.called /\ ringOut.query = NoQuery
    /\ Len(written) > maxSize
    /\ nWrites > Len(written)
    /\ head # 0

C4_RingSize ==
    /\ size >= 0 /\ size <= maxSize
    /\ size = Min(Len(written), maxSize)
    /\ size = Len(getEntries(NoQuery))
    /\ head >= 0 /\ head < maxSize
    /\ (written = <<>> => size = 0)

\* a full ring, written past its capacity after a clear
C4_Witness ==
    /\ size = maxSize
    /\ Len(written) > maxSize
    /\ nWrites > Len(written)
    /\ maxSize > 1

\* C38: for every limit L >= 0 given in the query, getEntries returns at most
\* L entries (limit 0 returns none).
C38_LimitIsUpperBound ==
    (ringOut.called /\ ringOut.query.limit # Undefined) =>
        Len(ringOut.entries) <= ringOut.query.limit[1]

-----------------------------------------------------------------------------
(* Properties of the batching wrapper *)

RECURSIVE Ids(_)
Ids(entries) ==
    IF entries = <<>> THEN <<>> ELSE <<Head(entries).id>> \o Ids(Tail(entries))

\* the ids lo, lo + 1, ..., hi in order
Range(lo, hi) == [i \in 1..(hi - lo + 1) |-> lo + i - 1]

\* C5: starting from an empty buffer the first batchSize - 1 writes hand
\* nothing to the inner sink; the batchSize-th write hands over all batchSize
\* buffered entries, once each and in write order, before it returns, and
\* leaves the buffer empty.
C5_SizeTrigger ==
    /\ Len(batchBuffer) < batchSize
    /\ lastOp.op = "transform" =>
         LET n == Len(lastOp.before) + 1
         IN  /\ n <= batchSize
             /\ n < batchSize =>
                  /\ lastOp.handed = <<>>
                  /\ Ids(batchBuffer) = Range(nBatchWrites - n + 1, nBatchWrites)
             /\ n = batchSize =>
                  /\ Ids(lastOp.handed) = Range(nBatchWrites - batchSize + 1, nBatchWrites)
                  /\ batchBuffer = <<>>

\* the third write of a batch of three triggers the flush
C5_Witness ==
    /\ lastOp.op = "transform"
    /\ batchSize = MaxBatchSize
    /\ Len(lastOp.before) = batchSize - 1
    /\ Len(lastOp.handed) = batchSize

\* C6: fewer than batchSize buffered entries are delivered when
\* flushIntervalMs has elapsed since the first buffered entry, and the timer
\* is one-shot: once it has fired, nothing is pending any more.
C6_TimerTrigger ==
    (lastOp.op = "timer" /\ lastOp.before # <<>>) =>
        /\ lastOp.handed = lastOp.before
        /\ lastOp.waited = flushIntervalMs
        /\ flushTimer = Undefined
        /\ batchBuffer = <<>>

\* C29: a write that makes the buffer reach batchSize cancels the pending
\* flush timer together with the immediate flush, so a pending timer was
\* armed by the oldest entry still in the buffer, and an entry buffered after
\* a size-triggered flush is not flushed by a timer earlier than
\* flushIntervalMs after it was written.
C29_TimerCancellation ==
    /\ (lastOp.op = "transform" /\ lastOp.handed # <<>>) => flushTimer = Undefined
    /\ flushTimer # Undefined =>
         /\ batchBuffer # <<>>
         /\ flushTimer[1] = firstAt + flushIntervalMs
    /\ (lastOp.op = "timer" /\ lastOp.before # <<>>) =>
         lastOp.waited >= flushIntervalMs

\* C7: a throw or a rejection of the inner sink for one entry of a batch
\* neither keeps the other entries of the batch from the inner sink nor
\* leaves transform() or the timer callback: every entry written is either
\* still buffered or was handed over, in write order.
C7_FaultIsolation ==
    /\ ~escaped
    /\ ~unhandled
    /\ lastOp.op \in {"timer", "flush", "close"} => lastOp.handed = lastOp.before
    /\ innerLog \o Calls(batchBuffer) = Calls([i \in 1..nBatchWrites |-> [id |-> i]])

\* a batch whose first entry throws and whose second is rejected
C7_Witness ==
    /\ Len(lastOp.handed) >= 3
    /\ lastOp.handed[1].kind = "throw"
    /\ lastOp.handed[2].kind = "reject"
    /\ lastOp.handed[3].kind = "ok"

\* the position of the first call of hook `op` in the calls since the last
\* flush() / close() began, 0 if there is none
Position(op) ==
    IF \E i \in 1..Len(hookLog) : hookLog[i].op = op
    THEN CHOOSE i \in 1..Len(hookLog) :
            /\ hookLog[i].op = op
            /\ \A j \in 1..(i - 1) : hookLog[j].op # op
    ELSE 0

\* flush() cancels the timer, hands over every buffered entry and only then
\* calls inner.flush; close() calls inner.close only after that flush settled
Protocol ==
    /\ lastOp.op \in {"flush", "close"} =>
         /\ flushTimer = Undefined
         /\ batchBuffer = <<>>
         /\ lastOp.handed = lastOp.before
         /\ hookLog = Calls(lastOp.before) \o HookCall("flush")
    /\ Position("close") # 0 =>
         /\ Position("flush settled") # 0
         /\ Position("flush settled") < Position("close")
         /\ Position("flush") < Position("flush settled")
         /\ "flush" \in innerHooks => Position("flush") # 0
    /\ pc = "close:await inner.close" =>
         ("close" \in innerHooks => Position("close") # 0)

HandedBefore(n) == \A id \in 1..n : \E i \in 1..Len(innerLog) : innerLog[i].id = id

\* C8, as claimed: ... when close() resolves the buffer is empty, no timer is
\* pending, and every entry written before close was handed to the inner sink.
C8_CloseLeavesNothing ==
    /\ Protocol
    /\ (lastDone.op = "close" /\ lastDone.ok) =>
         /\ lastDone.buffer = <<>>
         /\ ~lastDone.timer
         /\ HandedBefore(lastDone.started)

\* C8, amended: flush() cancels the timer, hands over every buffered entry and
\* only then calls and awaits inner.flush; close() calls inner.close only after
\* that. When close() resolves, every entry written before close() was called
\* has been handed to the inner sink; the buffer holds only entries written
\* while close() was in progress and a timer is pending only if there was such
\* a write.
C8_FlushCloseProtocol ==
    /\ Protocol
    /\ (lastDone.op = "close" /\ lastDone.ok) =>
         /\ HandedBefore(lastDone.started)
         /\ \A i \in 1..Len(lastDone.buffer) : lastDone.buffer[i].id > lastDone.started
         /\ lastDone.timer => lastDone.writes > lastDone.started
         /\ lastDone.writes = lastDone.started =>
              (lastDone.buffer = <<>> /\ ~lastDone.timer)

\* close() resolved after handing over two buffered entries, and with an
\* entry that was written while it awaited the inner sink
C8_Witness ==
    /\ lastDone.op = "close" /\ lastDone.ok
    /\ lastDone.started >= 2
    /\ lastDone.buffer # <<>>
    /\ Len(hookLog) >= 5
    /\ hookLog[1].op = "transform" /\ hookLog[2].op = "transform"
    /\ hookLog[3].op = "flush"
    /\ hookLog[4].op = "flush settled"
    /\ hookLog[5].op = "close"

\* the entries handed to the inner sink so far are the first ones written, in
\* write order, each once
HandedPrefix ==
    /\ Len(innerLog) <= nBatchWrites
    /\ \A i \in 1..Len(innerLog) : innerLog[i] = Call("transform", i)

Times(id, seq) == Cardinality({k \in 1..Len(seq) : seq[k].id = id})

\* the last operation handed a batch over
HandedOver == lastOp.op \in {"transform", "timer", "flush"} /\ lastOp.batch # <<>>

\* C40: an entry written to the wrapper by the inner transformer while a
\* batch is handed over goes into the fresh buffer: every entry ever written
\* is once in the buffer or once among the entries handed over, never both
\* and never twice; every entry of the batch in progress was handed over
\* once by that operation; while fewer entries than batchSize were written
\* during it they are the buffer afterwards; and a non-empty buffer has a
\* pending timer
C40_ReentrantWriteKept ==
    /\ \A id \in 1..nBatchWrites :
            Times(id, innerLog) + Times(id, batchBuffer) = 1
    /\ batchBuffer # <<>> => flushTimer # Undefined
    /\ HandedOver =>
        /\ \A k \in 1..Len(lastOp.batch) :
                /\ Times(lastOp.batch[k].id, lastOp.handed) = 1
                /\ Times(lastOp.batch[k].id, batchBuffer) = 0
        /\ Len(lastOp.written) < batchSize => batchBuffer = lastOp.written

\* a batch of two entries was handed over, the inner transformer wrote an
\* entry meanwhile, and that entry is the buffer
C40_Witness ==
    /\ HandedOver
    /\ Len(lastOp.batch) >= 2
    /\ lastOp.written # <<>>
    /\ batchBuffer = lastOp.written

-----------------------------------------------------------------------------
(* Properties of the logger *)

\* the positions of the transports that were handed the last entry
Received == {lastLog.received[k] : k \in 1..Len(lastLog.received)}

\* the level each transport of the pool is configured with, if any
ConfiguredLevel ==
    [plain |-> Undefined, warn |-> Some(LogLevel.WARN), debug |-> Some(LogLevel.DEBUG),
     silent |-> Some(LogLevel.SILENT)]

\* A transport's threshold at fan-out: its configured level when it has one,
\* otherwise the logger's level at that moment.
Threshold(t) ==
    IF ConfiguredLevel[t.name] = Undefined THEN loggerLevel
    ELSE ConfiguredLevel[t.name][1]

\* the entry of the last call passes the threshold of the transport at i
Passes(i) == lastLog.out[1].level >= Threshold(transports[i])

\* C1: a log call, on the root or on a child, whose level is below the
\* logger's threshold at the time of the call is a no-op: no middleware and no
\* transport observes an entry, and neither the id generator nor the
\* timestamp function is invoked.
C1_BelowThresholdNoOp ==
    (lastLog.called /\ lastLog.level < lastLog.threshold) =>
        /\ lastLog.seen = <<>>
        /\ lastLog.out = Undefined
        /\ lastLog.received = <<>>
        /\ ~lastLog.idCalled
        /\ ~lastLog.tsCalled

\* a call on a child below the threshold, with a middleware registered and a
\* transport attached whose own level the call would pass
C1_Witness ==
    /\ lastLog.called /\ lastLog.via = "child"
    /\ lastLog.level < lastLog.threshold
    /\ middlewareList # <<>>
    /\ \E i \in 1..Len(transports) :
        /\ transports[i].level # Undefined
        /\ lastLog.level >= Threshold(transports[i])

\* C9: when a transport throws, or returns a promise that rejects, while
\* handling an entry, every other transport whose threshold the entry passes
\* still receives the entry; the logging call returns normally and no
\* rejection is left unhandled.
C9_FanOutIsolation ==
    lastLog.called =>
        /\ lastLog.threw = "no"
        /\ ~lastLog.unhandled
        /\ \A i \in Received :
             transports[i].kind \in {"throw", "reject"} =>
                 \A j \in 1..Len(transports) :
                     (j # i /\ Passes(j)) => j \in Received

\* a transport that throws is followed by one that rejects, and both were
\* handed the entry
C9_Witness ==
    /\ lastLog.called
    /\ lastLog.received = <<1, 2>>
    /\ transports[1].kind = "throw"
    /\ transports[2].kind = "reject"

\* C10: at fan-out a transport receives the entry if and only if the entry's
\* level, as it is after middleware, is at least the transport's threshold:
\* its own configured level when set, otherwise the logger's level at that
\* moment.
C10_TransportFilter ==
    (lastLog.called /\ lastLog.out # Undefined) =>
        \A i \in 1..Len(transports) : (i \in Received) <=> Passes(i)

\* a middleware changed the entry's level and another the logger's level;
\* of two transports exactly one received the entry
C10_Witness ==
    /\ lastLog.called /\ lastLog.out # Undefined
    /\ lastLog.out[1].level # lastLog.level
    /\ loggerLevel # lastLog.threshold
    /\ Len(transports) = 2
    /\ Len(lastLog.received) = 1

\* C24: whenever the threshold in force for a transport is SILENT (its own
\* level, or the logger's level when it has none), that transport receives no
\* entry, for any log call and any installed middleware.
C24_SilentDisablesOutput ==
    lastLog.called =>
        \A i \in Received : Threshold(transports[i]) # LogLevel.SILENT

\* the value the last call gave the override key
GivenOverride == lastLog.given[1][OverrideKey]

\* C37: with levelOverrideMiddleware installed on a logger whose level is
\* INFO, a log call whose meta carries the override key with value DEBUG is
\* delivered to a transport that has no level of its own.
C37_OverrideReachesTransports ==
    (/\ lastLog.called
     /\ lastLog.threshold = LogLevel.INFO
     /\ middlewareList \in {<<"override">>, <<"overrideKeep">>}
     /\ GivenOverride = Some("DEBUG")) =>
        \A i \in 1..Len(transports) :
            transports[i].level = Undefined => i \in Received

\* the k-th middleware invocation of the last call was levelOverrideMiddleware
IsOverride(k) ==
    middlewareList[lastLog.seen[k].index] \in {"override", "overrideKeep"}

\* the entry as the k-th invoked middleware passed it on: as the next
\* middleware, or the fan-out, was given it
Leaving(k) ==
    IF k < Len(lastLog.seen) THEN lastLog.seen[k + 1].entry ELSE lastLog.finals[1]

\* the value names a level of the registry, in any letter case
NamesLevel(v) ==
    v \in {Some("DEBUG"), Some("debug"), Some("silent")}

-----------------------------------------------------------------------------
(* Properties of the middleware chain *)

\* the last call passed the level check and ran the pipeline
Ran == lastLog.called /\ lastLog.idCalled

\* the entry the logger constructed for the last call
Constructed ==
    [level |-> lastLog.level,
     levelName |-> CHOOSE n \in Methods : LogLevel[n] = lastLog.level,
     meta |-> NoMeta]

\* the middleware invoked k-th during the last call
Invoked(k) == middlewareList[lastLog.seen[k].index]

CallsNext(mw) == mw \notin {"drop", "throw"}

\* the entry a middleware passes to next when it was given e
Expect(mw, e) ==
    IF mw = "relevel" THEN [e EXCEPT !.level = 40, !.levelName = "WARN"] ELSE e

\* C11: m0 is invoked first with the logged entry; m(i+1) is invoked only
\* when mi calls next, with exactly the entry mi passed; the fan-out runs only
\* when the last middleware calls next; when some mi never calls next, no
\* later middleware and no transport observes the entry and no error is
\* raised; with an empty chain the fan-out is invoked directly.
C11_ChainOrderAndDrop ==
    Ran =>
        /\ middlewareList = <<>> =>
             (lastLog.seen = <<>> /\ lastLog.finals = <<Constructed>>)
        /\ middlewareList # <<>> =>
             (lastLog.seen # <<>> /\ lastLog.seen[1] = [index |-> 1, entry |-> Constructed])
        /\ \A k \in 1..(Len(lastLog.seen) - 1) :
             /\ lastLog.seen[k + 1].index = lastLog.seen[k].index + 1
             /\ CallsNext(Invoked(k))
             /\ lastLog.seen[k + 1].entry = Expect(Invoked(k), lastLog.seen[k].entry)
        /\ lastLog.finals # <<>> =>
             /\ Len(lastLog.seen) = Len(middlewareList)
             /\ \A k \in 1..Len(lastLog.seen) : CallsNext(Invoked(k))
        /\ \A k \in 1..Len(lastLog.seen) :
             Invoked(k) = "drop" =>
                 /\ k = Len(lastLog.seen)
                 /\ lastLog.received = <<>>
                 /\ (\A j \in 1..Len(lastLog.seen) : Invoked(j) # "throwAfter")
                        => lastLog.threw = "no"

\* a middleware that throws was invoked during the last call
ThrowerInvoked ==
    \E k \in 1..Len(lastLog.seen) : Invoked(k) \in {"throw", "throwAfter"}

\* C12, as stated: when a middleware throws while a log call runs the chain,
\* the exception propagates out of the log call and no transport receives the
\* entry.
C12_MiddlewareThrowSurfaces ==
    (Ran /\ ThrowerInvoked) =>
        (lastLog.threw = "middleware" /\ lastLog.received = <<>>)

\* C12, amended: when a middleware throws while a log call runs the chain,
\* the exception propagates out of the log call; no transport receives the
\* entry when the middleware throws instead of calling next, and a transport
\* has received it only when the middleware threw after its call of next
\* returned.
C12_ThrowSurfaces ==
    (Ran /\ ThrowerInvoked) =>
        /\ lastLog.threw = "middleware"
        /\ (\E k \in 1..Len(lastLog.seen) : Invoked(k) = "throw")
              => lastLog.received = <<>>
        /\ lastLog.received # <<>>
              => \E k \in 1..Len(lastLog.seen) : Invoked(k) = "throwAfter"

\* the second middleware of the chain throws instead of calling next, on a
\* logger with a transport whose threshold the entry passes
C12_Witness ==
    /\ Ran
    /\ Len(lastLog.seen) = 2 /\ Invoked(2) = "throw"
    /\ lastLog.threw = "middleware"
    /\ \E i \in 1..Len(transports) : lastLog.level >= Threshold(transports[i])

\* the transports an empty chain hands the constructed entry to
DirectlyReceived ==
    LET keep(i) == Constructed.level >= Threshold(transports[i])
    IN  SelectSeq([i \in 1..Len(transports) |-> i], keep)

\* C20: with middleware that do not mutate the entry and call next with the
\* entry they received, what reaches the transports is the entry the logger
\* constructed; with pass-through middleware only, each transport receives
\* what it receives with an empty chain.
C20_PassThroughRoundTrip ==
    Ran =>
        /\ (\A i \in 1..Len(middlewareList) : middlewareList[i] \in {"pass", "quiet"})
              => lastLog.finals = <<Constructed>>
        /\ (\A i \in 1..Len(middlewareList) : middlewareList[i] = "pass")
              => lastLog.received = DirectlyReceived

\* two pass-through middleware, an entry below WARN, and a transport that
\* received it
C20_Witness ==
    /\ Ran
    /\ middlewareList = <<"pass", "pass">>
    /\ lastLog.level < LogLevel.WARN
    /\ lastLog.received # <<>>

\* how often the middleware at position j was invoked during the last call;
\* position Len(middlewareList) + 1 stands for the fan-out
Invocations(j) ==
    IF j > Len(middlewareList) THEN Len(lastLog.finals)
    ELSE Cardinality({k \in 1..Len(lastLog.seen) : lastLog.seen[k].index = j})

\* how often a middleware calls the next it is given
NextCalls(mw) ==
    CASE mw \in {"drop", "throw"} -> 0
      [] mw = "twice" -> 2
      [] OTHER -> 1

\* C34: the next given to middleware i continues at middleware i+1 (or at
\* the fan-out for the last one) however many times it is invoked: every
\* call of it runs the middleware after i, so every entry that reaches the
\* transports has passed through every middleware, also when a middleware
\* calls next more than once.
C34_FixedContinuations ==
    (Ran /\ \A i \in 1..Len(middlewareList) :
                middlewareList[i] \notin {"throw", "throwAfter"}) =>
        \A j \in 1..Len(middlewareList) :
            Invocations(j + 1) = Invocations(j) * NextCalls(middlewareList[j])


\* C32: a log call applies exactly the middleware that were registered when
\* the call started, each once and in order, whatever addMiddleware and
\* removeMiddleware did while the call ran (every middleware of these chains
\* calls its next once)
C32_InFlightSnapshot ==
    Ran => [k \in 1..Len(lastLog.seen) |-> lastLog.seen[k].index]
              = [k \in 1..Len(lastLog.registered) |-> k]

-----------------------------------------------------------------------------
(* Properties of flush() and close() on the logger *)

\* some transport's hook would reject or throw when called
HookFails(hook) ==
    \E i \in 1..Len(transports) : transports[i][hook] \in {"reject", "throw"}

\* C13: logger.flush() rejects when a transport's flush hook rejects, and
\* logger.close() rejects when a transport's flush or close hook rejects; it
\* fulfils only when no hook failed.
C13_LifecycleErrorsSurface ==
    /\ lcDone.op = "flush" => (lcDone.ok <=> ~HookFails("flush"))
    /\ lcDone.op = "close" => (lcDone.ok <=> ~(HookFails("flush") \/ HookFails("close")))

\* close() rejected on a logger whose flush hooks all succeed and whose
\* second transport's close hook rejects
C13_Witness ==
    /\ lcDone.op = "close" /\ ~lcDone.ok
    /\ Len(transports) = 2
    /\ ~HookFails("flush")
    /\ transports[1].flush = "ok"
    /\ transports[1].close = "ok"
    /\ transports[2].close = "reject"

\* C35: logger.close() invokes the close hook of every attached transport
\* that has one, even when some transport's flush hook rejects: a failing
\* flush makes close() reject but leaves no transport unclosed.
C35_CloseReachesEveryTransport ==
    lcDone.op = "close" =>
        \A i \in 1..Len(transports) :
            transports[i].close # "none" =>
                \E k \in 1..Len(lcCalls) :
                    lcCalls[k].hook = "close" /\ lcCalls[k].transport = i

-----------------------------------------------------------------------------
(* Properties of serializeError *)

\* the k-th nested cause of the logged error, k >= 1, found by walking the
\* chain
RECURSIVE CauseAt(_)
CauseAt(k) ==
    IF k = 0 THEN 0
    ELSE LET prev == CauseAt(k - 1)
         IN  IF prev < errIn.n THEN prev + 1 ELSE errIn.back

\* the logged error has at least k nested causes
HasCauses(k) == k <= errIn.n \/ errIn.last = "back"

\* min(n, 5) for a chain of n nested causes (n unbounded for a cyclic chain)
ExpectedLinks ==
    IF HasCauses(5) THEN 5 ELSE errIn.n

\* C18: serializing an error with n nested causes terminates, also for a
\* cyclic chain, and yields exactly min(n, 5) cause links whose messages are
\* those of the first min(n, 5) causes in order.
C18_BoundedSerialization ==
    errOut # Undefined =>
        /\ Len(errOut[1]) = ExpectedLinks + 1
        /\ \A k \in 0..ExpectedLinks :
             errOut[1][k + 1].message = <<"level", CauseAt(k)>>

\* an acyclic chain of seven nested causes was cut after the fifth
C18_Witness ==
    /\ errOut # Undefined
    /\ errIn.n = 7 /\ errIn.last = "none"
    /\ Len(errOut[1]) = 6
    /\ errOut[1][6].message = <<"level", 5>>

-----------------------------------------------------------------------------
(* Properties of the deduplication middleware *)

\* the positions of the trace where an entry was passed to next
Forwards == {p \in 1..Len(dedupTrace) : dedupTrace[p].what = "next"}

\* the last position before p where an entry of the same key was passed to
\* next, 0 when there is none
PreviousForward(p) ==
    LET earlier == {q \in Forwards : q < p /\ dedupTrace[q].key = dedupTrace[p].key}
    IN  IF earlier = {} THEN 0 ELSE CHOOSE q \in earlier : \A r \in earlier : r <= q

\* the entries of the window that the forward at p closes: those of its key
\* given to the middleware since the previous forward of that key
WindowOf(p) ==
    {i \in (PreviousForward(p) + 1)..(p - 1) :
        dedupTrace[i].what = "entry" /\ dedupTrace[i].key = dedupTrace[p].key}

First(S) == CHOOSE i \in S : \A j \in S : i <= j

\* the entries of a key that are waiting for their window to end
Waiting(key) ==
    {i \in 1..Len(dedupTrace) :
        /\ dedupTrace[i].what = "entry" /\ dedupTrace[i].key = key
        /\ \A p \in Forwards : dedupTrace[p].key = key => p < i}

\* Every forward closes a window of its own key: it happens windowMs after
\* the first entry of the window, all entries of the window arrived by then,
\* and the first entry is the one forwarded; nothing waits past the end of
\* its window.
Windowed ==
    /\ \A p \in Forwards :
        /\ WindowOf(p) # {}
        /\ dedupTrace[p].id = dedupTrace[First(WindowOf(p))].id
        /\ dedupTrace[p].at = dedupTrace[First(WindowOf(p))].at + windowMs
        /\ \A i \in WindowOf(p) : dedupTrace[i].at <= dedupTrace[p].at
    /\ \A key \in DedupKeys :
        Waiting(key) # {} =>
            dedupNow <= dedupTrace[First(Waiting(key))].at + windowMs

-----------------------------------------------------------------------------
(* Properties of the context middleware *)

\* the values each flow sets with runInContext and updateContext
ValuesSetBy(t) ==
    IF t = 1 THEN {Str("r1"), Str("u1"), Str("w1")}
    ELSE {Num("2"), Str("u2"), Str("")}

\* the depth at which flow t is nested, and the store of its k-th scope
Depth(t) == Len(ctxStack[t])
StoreAt(t, k) == ctxStack[t][k].store

Logged == lastCtx.op = "log"

\* the frame that was active for the entry just logged
ActiveFrame == StoreAt(lastCtx.task, Depth(lastCtx.task))

\* C14: an entry logged inside runInContext carries each key of the active
\* frame in its meta, whenever in the flow it is logged; an entry logged
\* outside any scope carries no value of a frame.
C14_ContextPropagation ==
    Logged =>
        IF Depth(lastCtx.task) > 0
        THEN \A k \in CtxKeys :
                ActiveFrame[k] # Undefined => lastCtx.meta[k] # Undefined
        ELSE \A k \in CtxKeys : \A t \in CtxTasks :
                lastCtx.meta[k] # Undefined => lastCtx.meta[k][1] \notin ValuesSetBy(t)

\* C15: an entry logged inside the scope of one flow never carries a value
\* set, by runInContext or updateContext, in the scope of the other flow.
C15_ContextIsolation ==
    (Logged /\ Depth(lastCtx.task) > 0) =>
        \A k \in CtxKeys : \A t \in CtxTasks \ {lastCtx.task} :
            lastCtx.meta[k] # Undefined => lastCtx.meta[k][1] \notin ValuesSetBy(t)

\* the frame a nested scope sees: the parent's, with the given values on top
Overlay(parent, values) ==
    [k \in CtxKeys |-> IF values[k] = Undefined THEN parent[k] ELSE values[k]]

\* C16: a runInContext inside another scope sees the parent frame overlaid
\* with its own values, the nested value winning; entering the nested scope
\* and calling updateContext inside it leave the parent frame as it was, and
\* when the nested scope ends the parent observes the frame it had before.
C16_NestedScopes ==
    LET t == lastCtx.task
    IN  /\ (lastCtx.op = "runInContext" /\ lastCtx.nested) =>
              /\ StoreAt(t, Depth(t)) = Overlay(lastCtx.parentBefore, lastCtx.values)
              /\ StoreAt(t, Depth(t) - 1) = lastCtx.parentBefore
        /\ (lastCtx.op = "updateContext" /\ lastCtx.nested) =>
              StoreAt(t, Depth(t) - 1) = lastCtx.parentBefore
        /\ (lastCtx.op = "scope ends" /\ lastCtx.nested) =>
              StoreAt(t, Depth(t)) = lastCtx.saved

\* a nested scope was entered with a value for a key that the parent frame
\* has with another value
C16_Witness ==
    /\ lastCtx.op = "runInContext" /\ lastCtx.nested
    /\ \E k \in CtxKeys :
        /\ lastCtx.parentBefore[k] # Undefined
        /\ lastCtx.values[k] # Undefined
        /\ lastCtx.parentBefore[k] # lastCtx.values[k]

\* C17: for a key that is both in the active frame and in the meta passed to
\* the log call the entry keeps the caller's value; a frame key that is not in
\* the meta is added; correlationId is set, from the frame's requestId, only
\* when the entry has none already.
C17_ExplicitMetaWins ==
    (Logged /\ Depth(lastCtx.task) > 0) =>
        /\ \A k \in CtxKeys :
             lastCtx.meta[k] =
                 IF lastCtx.given[k] # Undefined THEN lastCtx.given[k]
                 ELSE ActiveFrame[k]
        /\ lastCtx.corr # lastCtx.corrBefore =>
             /\ lastCtx.corrBefore = Undefined
             /\ ActiveFrame.requestId # Undefined
             /\ lastCtx.corr = Some(Str(ActiveFrame.requestId[1].text))
        /\ (lastCtx.corrBefore = Undefined /\ ActiveFrame.requestId # Undefined
            /\ ActiveFrame.requestId[1].text # "")
              => lastCtx.corr # Undefined

\* the caller passed userId, which the frame has too, and the frame has a
\* requestId that the meta and the entry lacked
C17_Witness ==
    /\ Logged /\ Depth(lastCtx.task) > 0
    /\ lastCtx.given.userId = Some(Str("own"))
    /\ ActiveFrame.userId # Undefined
    /\ lastCtx.given.requestId = Undefined
    /\ ActiveFrame.requestId = Some(Num("2"))
    /\ lastCtx.corrBefore = Undefined
    /\ lastCtx.corr = Some(Str("2"))

-----------------------------------------------------------------------------
(* Properties of a root logger and its children *)

\* C21: the root and every logger derived from it by child() read and write
\* one threshold: after setLevel(L) on any of them, getLevel() returns L and
\* isLevelEnabled and the filtering of log calls follow L on every one.
C21_SharedLevel ==
    /\ \A x \in Loggers :
        /\ getLevel(x) = levelSet
        /\ \A M \in LogLevelNames :
             isLevelEnabled(x, M) <=> LogLevel[M] >= LogLevel[levelSet]
    /\ lastFam.op = "log" =>
         (lastFam.passed <=> lastFam.level >= LogLevel[levelSet])

\* the context a logger carries by its derivation: the base context overlaid
\* by the contexts of the child() calls, in order
RECURSIVE Layered(_, _)
Layered(base, chain) ==
    IF chain = <<>> THEN base
    ELSE LET c == Head(chain)
         IN  Layered([k \in CtxKeys |-> IF c[k] = Undefined THEN base[k] ELSE c[k]],
                     Tail(chain))

DerivedContext(x) ==
    IF x = 0 THEN baseContext ELSE Layered(baseContext, children[x].chain)

\* C22: an entry logged through a child made by child(c1)...child(ck) carries
\* the base context overlaid by c1, ..., ck in that order; creating a child
\* never changes the context of another logger; an empty context is omitted
\* from the entry.
C22_ChildContextLayering ==
    /\ \A x \in Loggers : contextOf(x) = DerivedContext(x)
    /\ (lastFam.op = "log" /\ lastFam.passed) =>
         lastFam.context =
             IF DerivedContext(lastFam.via) = EmptyObject THEN Undefined
             ELSE Some(DerivedContext(lastFam.via))

\* an entry logged through a child of a child whose context replaces a key
\* of its parent's
C22_Witness ==
    /\ lastFam.op = "log" /\ lastFam.passed
    /\ lastFam.via = 2
    /\ Len(children[2].chain) = 2
    /\ children[2].chain[1].requestId = Some(Str("c1"))
    /\ children[2].chain[2].requestId = Some(Str("c3"))
    /\ lastFam.context = Some([requestId |-> Some(Str("c3")), userId |-> Some(Str("c3"))])

\* C33: an entry logged by done() of a timer obtained from a child logger's
\* startTimer carries that child's merged context, exactly like an entry
\* logged through the child's level methods.
C33_TimerCarriesChildContext ==
    (lastFam.op = "timer" /\ lastFam.passed /\ lastFam.via # 0) =>
        lastFam.context =
            IF DerivedContext(lastFam.via) = EmptyObject THEN Undefined
            ELSE Some(DerivedContext(lastFam.via))

\* C23: for every level name L of the registry, after setLevel(L) on a
\* logger, getLevel() returns L.
C23_LevelRoundTrip ==
    lastFam.op = "setLevel" => getLevel(lastFam.via) = levelSet

-----------------------------------------------------------------------------
(* Properties of the sinks that retry *)

\* the fetch calls of the batch that failed with a 5xx response or at
\* transport level
Retryable(k) == fetched[k] \in {"5xx", "error"}

\* C25: in the Loki transport with retry enabled, a push answered with a 5xx
\* response or failing at transport level is attempted again while retries
\* remain; a push answered with a 4xx response is terminal: no further attempt
\* is made for the batch, the failure is reported on the console and nothing
\* is thrown to the caller.
C25_LokiRetryPolicy ==
    (sink = "loki" /\ retryEnabled /\ sendPc = "done") =>
        \A k \in 1..Len(fetched) :
            /\ (Retryable(k) /\ k <= maxRetries) => Len(fetched) > k
            /\ fetched[k] = "4xx" =>
                /\ k = Len(fetched)
                /\ consoleErrors = <<"push failed: 4xx">>
                /\ settled = "resolved"

\* C26: in the webhook and the Loki sink, with retry enabled and every attempt
\* failing with a transport-level error or a 5xx response, a batch is sent
\* exactly maxRetries + 1 times, after which the sink gives up and nothing is
\* thrown to the caller.
C26_RetryBudget ==
    (retryEnabled /\ sendPc = "done" /\ \A k \in 1..Len(fetched) : Retryable(k)) =>
        /\ Len(fetched) = maxRetries + 1
        /\ settled = "resolved"

\* C36: with retry enabled, the webhook transport does not retry a batch
\* whose response is 4xx-class: that attempt is the last one for the batch,
\* and a batch answered 4xx at once is sent exactly once.
C36_Webhook4xxTerminal ==
    (sink = "webhook" /\ retryEnabled /\ sendPc = "done") =>
        \A k \in 1..Len(fetched) : fetched[k] = "4xx" => k = Len(fetched)

-----------------------------------------------------------------------------
(* Properties of the sampling middleware *)

\* the i-th entry is below priorityLevel: it is subject to the rate limit
Limited(i) == sampleTrace[i].entry.level < priorityLevel

\* the limited entries of the same key before the i-th
EarlierOfKey(i) ==
    {j \in 1..(i - 1) :
        Limited(j) /\ sampleTrace[j].entry.message = sampleTrace[i].entry.message}

\* the timestamp that opened the window the i-th entry, a limited one, falls
\* into: its own when it is the first of its key or when the window of the
\* limited entry of its key before it has lasted samplingWindowMs
RECURSIVE WindowStart(_)
WindowStart(i) ==
    IF EarlierOfKey(i) = {} THEN sampleTrace[i].entry.timestamp
    ELSE LET j == CHOOSE x \in EarlierOfKey(i) : \A y \in EarlierOfKey(i) : y <= x
         IN  IF sampleTrace[i].entry.timestamp - WindowStart(j) >= samplingWindowMs
             THEN sampleTrace[i].entry.timestamp
             ELSE WindowStart(j)

\* the limited entries of the i-th entry's key and window forwarded before it
ForwardedBefore(i) ==
    {j \in EarlierOfKey(i) : WindowStart(j) = WindowStart(i) /\ sampleTrace[j].forwarded}

\* C27: with sampleRate 1, for each key and each window at most maxPerWindow
\* entries below priorityLevel are forwarded and every further one in that
\* window is dropped; entries at or above priorityLevel are always forwarded
\* and never consume the budget.
C27_SamplingRateLimit ==
    sampleRate = 100 =>
        \A i \in 1..Len(sampleTrace) :
            IF Limited(i)
            THEN sampleTrace[i].forwarded <=>
                    Cardinality(ForwardedBefore(i)) < maxPerWindow
            ELSE sampleTrace[i].forwarded

\* an entry is forwarded, one at priority level is forwarded, a further one of
\* the key is dropped in the same window, and one is forwarded when the
\* window has lasted samplingWindowMs
C27_Witness ==
    /\ sampleRate = 100 /\ maxPerWindow = 1
    /\ Len(sampleTrace) = 4
    /\ \A i \in 1..4 : sampleTrace[i].entry.message = "a"
    /\ Limited(1) /\ sampleTrace[1].forwarded
    /\ ~Limited(2) /\ sampleTrace[2].forwarded
    /\ Limited(3) /\ ~sampleTrace[3].forwarded /\ WindowStart(3) = WindowStart(1)
    /\ Limited(4) /\ sampleTrace[4].forwarded
    /\ sampleTrace[4].entry.timestamp = WindowStart(1) + samplingWindowMs

-----------------------------------------------------------------------------
(* Properties of the alert middleware *)

RuleSet == {rules[i] : i \in 1..Len(rules)}

\* the i-th entry matches the rule
Matching(r, i) ==
    IF r.when = "errors" THEN alertTrace[i].entry.level >= LogLevel.ERROR ELSE TRUE

\* the rule fired on the i-th entry
FiredOn(r, i) ==
    \E k \in 1..Len(alertTrace[i].fired) : alertTrace[i].fired[k].rule = r.name

\* the entries onAlert of the rule was called with on the i-th entry
PassedOn(r, i) ==
    LET k == CHOOSE x \in 1..Len(alertTrace[i].fired) : alertTrace[i].fired[x].rule = r.name
    IN  alertTrace[i].fired[k].entries

\* the last entry before the i-th on which the rule fired, 0 when there is none
LastFiring(r, i) ==
    LET F == {j \in 1..(i - 1) : FiredOn(r, j)}
    IN  IF F = {} THEN 0 ELSE CHOOSE j \in F : \A x \in F : x <= j

ThresholdOf(r) == IF r.threshold = Undefined THEN 1 ELSE r.threshold[1]

CooldownOf(r) == IF r.cooldownMs = Undefined THEN 0 ELSE r.cooldownMs[1]

InWindow(r, j, i) ==
    r.windowMs = Undefined \/
    alertTrace[i].entry.timestamp - alertTrace[j].entry.timestamp < r.windowMs[1]

\* the matching entries retained for the rule when the i-th entry has been
\* added: those since the rule last fired that are within its window
Retained(r, i) ==
    {j \in (LastFiring(r, i) + 1)..i : Matching(r, j) /\ InWindow(r, j, i)}

CooledDown(r, i) ==
    LastFiring(r, i) = 0 \/
    alertTrace[i].entry.timestamp - alertTrace[LastFiring(r, i)].entry.timestamp
        >= CooldownOf(r)

\* C28: a rule fires on a matching entry exactly when the matching entries
\* retained within windowMs, this one included, number at least threshold and
\* at least cooldownMs of entry time has passed since the rule last fired;
\* firing clears the retained entries. Every firing passes at least threshold
\* entries, and every entry is forwarded to next exactly once whether or not
\* an alert fires or its callback fails.
C28_AlertFiringRule ==
    \A i \in 1..Len(alertTrace) :
        /\ alertTrace[i].forwarded = 1
        /\ ~alertTrace[i].threw /\ ~alertTrace[i].unhandled
        /\ \A r \in RuleSet :
            /\ FiredOn(r, i) <=>
                 /\ Matching(r, i)
                 /\ Cardinality(Retained(r, i)) >= ThresholdOf(r)
                 /\ CooledDown(r, i)
            /\ FiredOn(r, i) =>
                 /\ {PassedOn(r, i)[k].id : k \in 1..Len(PassedOn(r, i))} = Retained(r, i)
                 /\ Len(PassedOn(r, i)) = Cardinality(Retained(r, i))
                 /\ Len(PassedOn(r, i)) >= ThresholdOf(r)

\* a rule whose callback throws fired twice, a cooldown apart; between, a rule
\* whose threshold was met did not fire because its cooldown had not passed
C28_Witness ==
    /\ rules = <<ErrorsRule, AllRule>>
    /\ Len(alertTrace) = 4
    /\ FiredOn(ErrorsRule, 2) /\ FiredOn(ErrorsRule, 4)
    /\ FiredOn(AllRule, 1) /\ ~FiredOn(AllRule, 2)
    /\ Cardinality(Retained(AllRule, 2)) >= ThresholdOf(AllRule)
    /\ \A i \in 1..4 : alertTrace[i].forwarded = 1

-----------------------------------------------------------------------------
(* Properties of the buffer of the Loki transport *)

\* C31: whenever the buffer of the Loki transport holds an entry, a flush
\* timeout is pending, so that the entry is pushed within the batch interval
C31_BufferedHasPendingTimer ==
    lokiBuffer # <<>> => lokiTimer = "pending"

=============================================================================
